---- MODULE Spec2Model ----
(***************************************************************************)
(* Forward-chaining rule engine over first-order predicates.               *)
(*                                                                         *)
(* Two implementations of the same engine are modelled side by side:       *)
(*   "orig" : src/stage4_predicate/reasoner.py                             *)
(*   "quiz" : src/reasoner_quiz/stage4_predicate/reasoner.py               *)
(*                                                                         *)
(* Python values are encoded as records so that values of different        *)
(* Python types can be compared:                                           *)
(*   a str    "a"        is  [s |-> "a"]                                   *)
(*   a tuple  (x, y)     is  [t |-> <<x, y>>]                              *)
(*   a list   [x, y]     is  [l |-> <<x, y>>]                              *)
(*   None                is  [none |-> TRUE]                               *)
(*   a bool, an int      is  [b |-> TRUE], [n |-> 50]                      *)
(* A dict (Substitution) is a function whose DOMAIN is a set of strings;   *)
(* where a dict is returned to the caller it is wrapped as [d |-> dict].   *)
(***************************************************************************)
EXTENDS Integers, Sequences, FiniteSets, TLC

VARIABLES
    impl,           \* which module's code runs: "orig" or "quiz"; for the
                    \* propositional KBs "stage1", "stage2", "stage3", "quiz2"
    facts,          \* KB.facts : set of terms
    rules,          \* KB.rules : sequence of Rule records (or None entries)
    exist_counter,  \* KB._exist_counter
    pc,             \* "idle", or "fc" while forward_chain is running
                    \* ("pfc" in a propositional KB)
    fc,             \* the locals of the running forward_chain call
    ret,            \* what the last finished call returned or raised
    ncalls,         \* how many calls the KB has received
    ux, uy, ures,   \* inputs and result of a direct call of unify
    gen,            \* a _satisfying_substitutions generator that is driven
                    \* directly: its dict objects, frames and yielded values
    usubs           \* the dict given to a direct call of unify or substitute

vars ==
    <<impl, facts, rules, exist_counter, pc, fc, ret, ncalls, ux, uy, ures, gen, usubs>>

---------------------------------------------------------------------------
(* Python values *)

Str(s) == [s |-> s]
Tup(q) == [t |-> q]
Lst(q) == [l |-> q]
None == [none |-> TRUE]
Bool(b) == [b |-> b]
PyInt(n) == [n |-> n]
Dict(f) == [d |-> f]

IsStr(v) == DOMAIN v = {"s"}
IsTuple(v) == DOMAIN v = {"t"}
IsList(v) == DOMAIN v = {"l"}

\* The strings of the model that start with "?".
VarNames == {"?x", "?y", "?z", "?who"}

\* the value of a one-member set: Only({e(v) : v \in {x}}) is e(x), with x
\* computed once
Only(S) == CHOOSE v \in S : TRUE

\* {} : the empty dict
EmptySubs == [v \in {} |-> None]

is_variable(term) == IsStr(term) /\ term.s \in VarNames

\* subs.get(expr, expr) for a str expr; keys of a dict are plain strings
RECURSIVE substitute(_, _)
substitute(expr, subs) ==
    IF IsStr(expr)
    THEN IF expr.s \in DOMAIN subs THEN subs[expr.s] ELSE expr
    ELSE IF IsTuple(expr)
    THEN Tup([i \in 1..Len(expr.t) |-> substitute(expr.t[i], subs)])
    ELSE expr

\* Mutant of occurs_check: looks at the parts of a tuple, not inside them.
occurs_check_shallow(var, value, subs) ==
    \/ Str(var) = value
    \/ IsTuple(value) /\ \E i \in 1..Len(value.t) : value.t[i] = Str(var)

\* Mutant of occurs_check: the bindings of subs are not followed.
RECURSIVE occurs_check_nofollow(_, _, _)
occurs_check_nofollow(var, value, subs) ==
    IF Str(var) = value THEN TRUE
    ELSE IF IsTuple(value)
    THEN \E i \in 1..Len(value.t) : occurs_check_nofollow(var, value.t[i], subs)
    ELSE FALSE

RECURSIVE occurs_check(_, _, _)
occurs_check(var, value, subs) ==
    IF Str(var) = value THEN TRUE
    ELSE IF IsStr(value) /\ is_variable(value) /\ value.s \in DOMAIN subs
    THEN occurs_check(var, subs[value.s], subs)
    ELSE IF IsTuple(value)
    THEN \E i \in 1..Len(value.t) : occurs_check(var, value.t[i], subs)
    ELSE FALSE

---------------------------------------------------------------------------
(* unify of src/stage4_predicate/reasoner.py.  The dict passed in is        *)
(* updated in place (subs[var] = value), so a call is described by          *)
(* [ok, s]: ok is FALSE when the call returns None, and s is the content    *)
(* of that one dict object when the call ends (the value returned when ok). *)

RECURSIVE orig_unify(_, _, _)
RECURSIVE orig_unify_var(_, _, _)
RECURSIVE orig_unify_parts(_, _, _, _)

\* Mutant of orig_unify: the right operand is looked at first.
orig_unify_yfirst(x, y, subs) ==
    IF x = y THEN [ok |-> TRUE, s |-> subs]
    ELSE IF IsStr(y) /\ is_variable(y) THEN orig_unify_var(y.s, x, subs)
    ELSE IF IsStr(x) /\ is_variable(x) THEN orig_unify_var(x.s, y, subs)
    ELSE IF IsTuple(x) /\ IsTuple(y) /\ Len(x.t) = Len(y.t)
    THEN orig_unify_parts(x.t, y.t, 1, subs)
    ELSE [ok |-> FALSE, s |-> subs]

orig_unify(x, y, subs) ==
    IF x = y THEN [ok |-> TRUE, s |-> subs]
    ELSE IF IsStr(x) /\ is_variable(x) THEN orig_unify_var(x.s, y, subs)
    ELSE IF IsStr(y) /\ is_variable(y) THEN orig_unify_var(y.s, x, subs)
    ELSE IF IsTuple(x) /\ IsTuple(y) /\ Len(x.t) = Len(y.t)
    THEN orig_unify_parts(x.t, y.t, 1, subs)
    ELSE [ok |-> FALSE, s |-> subs]

\* for left, right in zip(x, y): subs = unify(left, right, subs) ...
orig_unify_parts(xs, ys, i, subs) ==
    IF i > Len(xs) THEN [ok |-> TRUE, s |-> subs]
    ELSE Only({IF r.ok THEN orig_unify_parts(xs, ys, i + 1, r.s) ELSE r :
               r \in {orig_unify(xs[i], ys[i], subs)}})

\* Mutant of orig_unify_var: a variable that is bound already is bound again.
orig_unify_var_rebind(var, value, subs) ==
    IF IsStr(value) /\ value.s \in DOMAIN subs /\ is_variable(value)
    THEN orig_unify(Str(var), subs[value.s], subs)
    ELSE IF occurs_check(var, value, subs) THEN [ok |-> FALSE, s |-> subs]
    ELSE [ok |-> TRUE, s |-> (var :> value) @@ subs]

orig_unify_var(var, value, subs) ==
    IF var \in DOMAIN subs THEN orig_unify(subs[var], value, subs)
    ELSE IF IsStr(value) /\ value.s \in DOMAIN subs /\ is_variable(value)
    THEN orig_unify(Str(var), subs[value.s], subs)
    ELSE IF occurs_check(var, value, subs) THEN [ok |-> FALSE, s |-> subs]
    ELSE [ok |-> TRUE, s |-> (var :> value) @@ subs]

---------------------------------------------------------------------------
(* unify of src/reasoner_quiz/stage4_predicate/reasoner.py.  A binding is   *)
(* made on a copy (subs.copy()), so the dict passed in is never changed;    *)
(* [ok, s]: s is the dict returned when ok, and the dict passed in when     *)
(* the call returns None.                                                   *)

RECURSIVE quiz_unify(_, _, _)
RECURSIVE quiz_unify_var(_, _, _)
RECURSIVE quiz_unify_parts(_, _, _, _)

quiz_unify(x, y, subs) ==
    LET term_a == substitute(x, subs)
        term_b == substitute(y, subs)
    IN  IF term_a = term_b THEN [ok |-> TRUE, s |-> subs]
        ELSE IF is_variable(term_a) THEN quiz_unify_var(term_a.s, term_b, subs)
        ELSE IF is_variable(term_b) THEN quiz_unify_var(term_b.s, term_a, subs)
        ELSE IF IsTuple(term_a) /\ IsTuple(term_b)
        THEN IF Len(term_a.t) # Len(term_b.t)
             THEN [ok |-> FALSE, s |-> subs]
             ELSE LET r == quiz_unify_parts(term_a.t, term_b.t, 1, subs)
                  IN  IF r.ok THEN r ELSE [ok |-> FALSE, s |-> subs]
        ELSE [ok |-> FALSE, s |-> subs]

\* for part_a, part_b in zip(term_a, term_b): current_bindings = unify(...)
quiz_unify_parts(xs, ys, i, subs) ==
    IF i > Len(xs) THEN [ok |-> TRUE, s |-> subs]
    ELSE Only({IF r.ok THEN quiz_unify_parts(xs, ys, i + 1, r.s)
               ELSE [ok |-> FALSE, s |-> subs] :
               r \in {quiz_unify(xs[i], ys[i], subs)}})

quiz_unify_var(var, value, subs) ==
    IF var \in DOMAIN subs THEN quiz_unify(subs[var], value, subs)
    ELSE IF IsStr(value) /\ is_variable(value) /\ value.s \in DOMAIN subs
    THEN quiz_unify(Str(var), subs[value.s], subs)
    ELSE IF occurs_check(var, value, subs) THEN [ok |-> FALSE, s |-> subs]
    ELSE [ok |-> TRUE, s |-> (var :> value) @@ subs]

\* unify of the module that impl names
unify(x, y, subs) ==
    IF impl = "orig" THEN orig_unify(x, y, subs) ELSE quiz_unify(x, y, subs)

---------------------------------------------------------------------------
(* Terms given to unify directly: every str of UStrs and every non-empty    *)
(* tuple built from them with at most MaxSize nodes (strs and tuples).      *)

MaxSize == 4

UStrs == {"a", "b", "?x", "?y"}

RECURSIVE TermsOfSize(_)
RECURSIVE SeqsOfSize(_)

TermsOfSize(n) ==
    IF n = 1 THEN {Str(c) : c \in UStrs}
    ELSE {Tup(q) : q \in SeqsOfSize(n - 1)}

\* the non-empty sequences of terms whose sizes add up to m
SeqsOfSize(m) ==
    {<<h>> : h \in TermsOfSize(m)} \cup
    UNION {{<<h>> \o rest : h \in TermsOfSize(k), rest \in SeqsOfSize(m - k)}
           : k \in 1..(m - 1)}

UTerms == UNION {TermsOfSize(n) : n \in 1..MaxSize}

---------------------------------------------------------------------------
(* The knowledge base: validation and storage.                             *)
(* An operator that models a method returns a record: exc is "" or the     *)
(* name of the exception raised, val the value returned, and the fields    *)
(* of the KB that the method may have changed.                             *)

\* Whether Python can hash v (a list cannot be a member of a set).
RECURSIVE Hashable(_)
Hashable(v) ==
    IF IsStr(v) THEN TRUE
    ELSE IF IsTuple(v) THEN \A i \in 1..Len(v.t) : Hashable(v.t[i])
    ELSE v = None

\* all(not (isinstance(arg, str) and is_variable(arg)) for arg in fact)
is_ground(fact) ==
    \A i \in 1..Len(fact.t) : ~(IsStr(fact.t[i]) /\ is_variable(fact.t[i]))

is_exists(expr) ==
    IsTuple(expr) /\ Len(expr.t) = 3 /\ expr.t[1] = Str("EXISTS")

Rule(variables, premises, conclusion) ==
    [variables |-> variables, premises |-> premises, conclusion |-> conclusion]

IsRule(v) == DOMAIN v = {"variables", "premises", "conclusion"}

\* Mutant of add_fact: no "if fact in self.facts: return False".
orig_add_fact_nodedup(F, fact) ==
    IF ~IsTuple(fact) \/ fact = Tup(<<>>) \/ ~is_ground(fact)
    THEN [exc |-> "ValueError", val |-> FALSE, facts |-> F]
    ELSE [exc |-> "", val |-> TRUE, facts |-> F \cup {fact}]

orig_add_fact(F, fact) ==
    IF ~IsTuple(fact) \/ fact = Tup(<<>>)
    THEN [exc |-> "ValueError", val |-> FALSE, facts |-> F]
    ELSE IF ~is_ground(fact)
    THEN [exc |-> "ValueError", val |-> FALSE, facts |-> F]
    ELSE IF ~Hashable(fact)
    THEN [exc |-> "TypeError", val |-> FALSE, facts |-> F]
    ELSE IF fact \in F
    THEN [exc |-> "", val |-> FALSE, facts |-> F]
    ELSE [exc |-> "", val |-> TRUE, facts |-> F \cup {fact}]

\* Mutant of add_fact: "self.facts = {fact}" in place of self.facts.add(fact).
quiz_add_fact_replace(F, fact) ==
    IF fact \in F THEN [exc |-> "", val |-> FALSE, facts |-> F]
    ELSE [exc |-> "", val |-> TRUE, facts |-> {fact}]

quiz_add_fact(F, fact) ==
    IF ~Hashable(fact)
    THEN [exc |-> "TypeError", val |-> FALSE, facts |-> F]
    ELSE IF fact \in F
    THEN [exc |-> "", val |-> FALSE, facts |-> F]
    ELSE [exc |-> "", val |-> TRUE, facts |-> F \cup {fact}]

add_fact(F, fact) ==
    IF impl = "orig" THEN orig_add_fact(F, fact) ELSE quiz_add_fact(F, fact)

\* Mutant of _normalize_premises: a list of premises is taken as one premise.
orig_normalize_premises_nolist(raw) ==
    IF raw = None THEN [exc |-> "", val |-> <<>>]
    ELSE LET parts ==
               IF IsTuple(raw) /\ raw.t # <<>> /\ raw.t[1] = Str("AND")
               THEN Tail(raw.t)
               ELSE <<raw>>
         IN  IF \E i \in 1..Len(parts) :
                    ~(IsTuple(parts[i]) /\ parts[i] # Tup(<<>>))
             THEN [exc |-> "ValueError", val |-> <<>>]
             ELSE [exc |-> "", val |-> parts]

\* _normalize_premises: [exc, val], val the tuple of premises
orig_normalize_premises(raw) ==
    IF raw = None THEN [exc |-> "", val |-> <<>>]
    ELSE LET parts ==
               IF IsTuple(raw) /\ raw.t # <<>> /\ raw.t[1] = Str("AND")
               THEN Tail(raw.t)
               ELSE IF (IsList(raw) /\ raw.l # <<>> /\ IsTuple(raw.l[1]))
               THEN raw.l
               ELSE IF (IsTuple(raw) /\ raw.t # <<>> /\ IsTuple(raw.t[1]))
               THEN raw.t
               ELSE <<raw>>
         IN  IF \E i \in 1..Len(parts) :
                    ~(IsTuple(parts[i]) /\ parts[i] # Tup(<<>>))
             THEN [exc |-> "ValueError", val |-> <<>>]
             ELSE [exc |-> "", val |-> parts]

\* Mutant of _normalize_premises: the second operand of AND is dropped.
quiz_normalize_premises_first(raw) ==
    IF IsList(raw) THEN [exc |-> "", val |-> raw.l]
    ELSE IF IsTuple(raw) /\ raw.t # <<>> /\ raw.t[1] = Str("AND")
    THEN [exc |-> "", val |-> <<raw.t[2]>>]
    ELSE [exc |-> "", val |-> <<raw>>]

quiz_normalize_premises(raw) ==
    IF IsList(raw) THEN [exc |-> "", val |-> raw.l]
    ELSE IF IsTuple(raw) /\ raw.t = <<>>
    THEN [exc |-> "IndexError", val |-> <<>>]
    ELSE IF IsTuple(raw) /\ raw.t[1] = Str("AND")
    THEN IF Len(raw.t) < 3 THEN [exc |-> "IndexError", val |-> <<>>]
         ELSE [exc |-> "", val |-> <<raw.t[2], raw.t[3]>>]
    ELSE [exc |-> "", val |-> <<raw>>]

\* the elements of a list or tuple
Elems(v) == IF IsList(v) THEN v.l ELSE v.t

\* _parse_rule: [exc, val], val the Rule
orig_parse_rule(expr) ==
    IF ~(IsTuple(expr) /\ Len(expr.t) = 3 /\ expr.t[1] = Str("FORALL"))
    THEN [exc |-> "ValueError", val |-> None]
    ELSE IF ~(IsList(expr.t[2]) \/ IsTuple(expr.t[2]))
    THEN [exc |-> "ValueError", val |-> None]
    ELSE IF ~(IsTuple(expr.t[3]) /\ Len(expr.t[3].t) = 3
              /\ expr.t[3].t[1] = Str("IMPLIES"))
    THEN [exc |-> "ValueError", val |-> None]
    ELSE LET n == orig_normalize_premises(expr.t[3].t[2])
         IN  IF n.exc # "" THEN [exc |-> n.exc, val |-> None]
             ELSE [exc |-> "",
                   val |-> Rule(Elems(expr.t[2]), n.val, expr.t[3].t[3])]

\* A Python function that ends without a return statement returns None.
quiz_parse_rule(expr) ==
    IF IsTuple(expr) /\ expr.t = <<>> THEN [exc |-> "IndexError", val |-> None]
    ELSE IF ~(IsTuple(expr) /\ expr.t[1] = Str("FORALL"))
    THEN [exc |-> "", val |-> None]
    ELSE IF Len(expr.t) < 3 THEN [exc |-> "IndexError", val |-> None]
    \* tuple(expr[1]) of something that is not iterable; a str there (which
    \* tuple() splits into characters) is not among the inputs of the model
    ELSE IF ~(IsList(expr.t[2]) \/ IsTuple(expr.t[2]))
    THEN [exc |-> "TypeError", val |-> None]
    ELSE LET body == expr.t[3]
         IN  IF IsTuple(body) /\ body.t = <<>>
             THEN [exc |-> "IndexError", val |-> None]
             ELSE IF IsTuple(body) /\ body.t[1] = Str("IMPLIES")
             THEN IF Len(body.t) < 3 THEN [exc |-> "IndexError", val |-> None]
                  ELSE LET n == quiz_normalize_premises(body.t[2])
                       IN  IF n.exc # "" THEN [exc |-> n.exc, val |-> None]
                           ELSE [exc |-> "",
                                 val |-> Rule(Elems(expr.t[2]), n.val, body.t[3])]
             ELSE IF IsTuple(body) /\ Len(body.t) = 2 /\ IsList(body.t[1])
             THEN LET n == quiz_normalize_premises(body.t[1])
                  IN  [exc |-> "",
                       val |-> Rule(Elems(expr.t[2]), n.val, body.t[2])]
             ELSE [exc |-> "ValueError", val |-> None]

\* Mutant of add_rule: the list grows before the rule is parsed.
orig_add_rule_early(R, rule) ==
    IF IsRule(rule) THEN [exc |-> "", rules |-> Append(R, rule)]
    ELSE LET parsed == orig_parse_rule(rule)
         IN  IF parsed.exc # "" THEN [exc |-> parsed.exc, rules |-> Append(R, None)]
             ELSE [exc |-> "", rules |-> Append(R, parsed.val)]

\* add_rule: [exc, rules]
orig_add_rule(R, rule) ==
    IF IsRule(rule) THEN [exc |-> "", rules |-> Append(R, rule)]
    ELSE LET parsed == orig_parse_rule(rule)
         IN  IF parsed.exc # "" THEN [exc |-> parsed.exc, rules |-> R]
             ELSE [exc |-> "", rules |-> Append(R, parsed.val)]

\* Mutant of add_rule: a rule that the list already holds is not appended.
quiz_add_rule_dedup(R, rule) ==
    LET parsed == IF IsRule(rule) THEN [exc |-> "", val |-> rule]
                  ELSE quiz_parse_rule(rule)
    IN  IF parsed.exc # "" THEN [exc |-> parsed.exc, rules |-> R]
        ELSE IF \E i \in 1..Len(R) : R[i] = parsed.val
        THEN [exc |-> "", rules |-> R]
        ELSE [exc |-> "", rules |-> Append(R, parsed.val)]

quiz_add_rule(R, rule) ==
    IF IsRule(rule) THEN [exc |-> "", rules |-> Append(R, rule)]
    ELSE LET parsed == quiz_parse_rule(rule)
         IN  IF parsed.exc # "" THEN [exc |-> parsed.exc, rules |-> R]
             ELSE [exc |-> "", rules |-> Append(R, parsed.val)]

add_rule(R, rule) ==
    IF impl = "orig" THEN orig_add_rule(R, rule) ELSE quiz_add_rule(R, rule)

---------------------------------------------------------------------------
(* Skolemization and queries *)

\* f"_sk{n}"
SkolemName(n) == "_sk" \o ToString(n)

\* the loop of _instantiate_exists over variables[i..]: [exc, counter, subs]
RECURSIVE orig_skolem_loop(_, _, _, _)
orig_skolem_loop(variables, i, counter, subs) ==
    IF i > Len(variables) THEN [exc |-> "", counter |-> counter, subs |-> subs]
    ELSE IF ~(IsStr(variables[i]) /\ is_variable(variables[i]))
    THEN [exc |-> "ValueError", counter |-> counter, subs |-> subs]
    ELSE orig_skolem_loop(variables, i + 1, counter + 1,
             (variables[i].s :> Str(SkolemName(counter + 1))) @@ subs)

RECURSIVE quiz_skolem_loop(_, _, _, _)
quiz_skolem_loop(variables, i, counter, subs) ==
    IF i > Len(variables) THEN [exc |-> "", counter |-> counter, subs |-> subs]
    ELSE IF ~Hashable(variables[i])
    THEN [exc |-> "TypeError", counter |-> counter + 1, subs |-> subs]
    ELSE quiz_skolem_loop(variables, i + 1, counter + 1,
             IF IsStr(variables[i])
             THEN (variables[i].s :> Str(SkolemName(counter))) @@ subs
             ELSE subs)  \* a key that substitute never looks up

\* Mutant of _instantiate_exists: every call numbers its constants from 1.
orig_instantiate_exists_fresh(expr, counter) ==
    LET variables == expr.t[2]
        body == expr.t[3]
    IN  IF ~(IsList(variables) \/ IsTuple(variables))
        THEN [exc |-> "ValueError", counter |-> counter, val |-> None]
        ELSE LET r == orig_skolem_loop(Elems(variables), 1, 0, EmptySubs)
             IN  [exc |-> r.exc, counter |-> r.counter,
                  val |-> IF r.exc = "" THEN substitute(body, r.subs) ELSE None]

\* _instantiate_exists: [exc, counter, val], val the instantiated body
orig_instantiate_exists(expr, counter) ==
    LET variables == expr.t[2]
        body == expr.t[3]
    IN  IF ~(IsList(variables) \/ IsTuple(variables))
        THEN [exc |-> "ValueError", counter |-> counter, val |-> None]
        ELSE LET r == orig_skolem_loop(Elems(variables), 1, counter, EmptySubs)
             IN  [exc |-> r.exc, counter |-> r.counter,
                  val |-> IF r.exc = "" THEN substitute(body, r.subs) ELSE None]

quiz_instantiate_exists(expr, counter) ==
    LET variables_to_skolemize ==
            IF IsStr(expr.t[2]) THEN <<expr.t[2]>>
            ELSE IF IsList(expr.t[2]) \/ IsTuple(expr.t[2]) THEN Elems(expr.t[2])
            ELSE <<>>
        formula_body == expr.t[3]
    IN  IF ~(IsStr(expr.t[2]) \/ IsList(expr.t[2]) \/ IsTuple(expr.t[2]))
        THEN [exc |-> "TypeError", counter |-> counter, val |-> None]
        ELSE LET r == quiz_skolem_loop(variables_to_skolemize, 1, counter,
                                       EmptySubs)
             IN  [exc |-> r.exc, counter |-> r.counter,
                  val |-> IF r.exc = "" THEN substitute(formula_body, r.subs)
                          ELSE None]

\* Some order of the members of the finite set S.
RECURSIVE SetToSeq(_)
SetToSeq(S) ==
    IF S = {} THEN <<>>
    ELSE Only({<<x>> \o SetToSeq(S \ {x}) : x \in {CHOOSE y \in S : TRUE}})

\* Every order of the members of the finite set S.
Orders(S) ==
    {q \in [1..Cardinality(S) -> S] : \A i, j \in DOMAIN q : i # j => q[i] # q[j]}

\* query(pattern) when "for fact in self.facts" runs through order[i..]:
\* the list of answers
RECURSIVE orig_query_loop(_, _, _)
orig_query_loop(pattern, order, i) ==
    IF i > Len(order) THEN <<>>
    ELSE LET theta == orig_unify(pattern, order[i], EmptySubs)
         IN  (IF theta.ok THEN <<theta.s>> ELSE <<>>)
             \o orig_query_loop(pattern, order, i + 1)

\* Mutant of query: returns after the first match.
orig_query_first(pattern, order) ==
    LET all == orig_query_loop(pattern, order, 1)
    IN  IF all = <<>> THEN <<>> ELSE <<all[1]>>

orig_query(pattern, order) == orig_query_loop(pattern, order, 1)

RECURSIVE quiz_query_loop(_, _, _)
quiz_query_loop(pattern, order, i) ==
    IF i > Len(order) THEN <<>>
    ELSE LET match_subs == quiz_unify(pattern, order[i], EmptySubs)
         IN  (IF match_subs.ok THEN <<match_subs.s>> ELSE <<>>)
             \o quiz_query_loop(pattern, order, i + 1)

\* Mutant of query: returns after the first match.
quiz_query_first(pattern, order) ==
    LET all == quiz_query_loop(pattern, order, 1)
    IN  IF all = <<>> THEN <<>> ELSE <<all[1]>>

quiz_query(pattern, order) == quiz_query_loop(pattern, order, 1)

query(pattern, order) ==
    IF impl = "orig" THEN orig_query(pattern, order)
    ELSE quiz_query(pattern, order)

\* KB(facts, rules): the constructor's two loops; [exc, facts, rules]
RECURSIVE init_facts(_, _, _)
init_facts(F, factsIn, i) ==
    IF i > Len(factsIn) THEN [exc |-> "", facts |-> F]
    ELSE LET r == add_fact(F, factsIn[i])
         IN  IF r.exc # "" THEN [exc |-> r.exc, facts |-> F]
             ELSE init_facts(r.facts, factsIn, i + 1)

RECURSIVE init_rules(_, _, _)
init_rules(R, rulesIn, i) ==
    IF i > Len(rulesIn) THEN [exc |-> "", rules |-> R]
    ELSE LET r == add_rule(R, rulesIn[i])
         IN  IF r.exc # "" THEN [exc |-> r.exc, rules |-> R]
             ELSE init_rules(r.rules, rulesIn, i + 1)

---------------------------------------------------------------------------
(* forward_chain.  One iteration of "for theta in                          *)
(* self._satisfying_substitutions(rule.premises)" is the body below; the   *)
(* generator itself is the stack of its suspended backtrack/dfs_search     *)
(* frames, kept in fc.stack.                                               *)

\* body of the loop in src/stage4_predicate: [exc, facts, counter, added]
orig_body(rule, theta, F, counter) ==
    LET conclusion == substitute(rule.conclusion, theta)
        inst == IF is_exists(conclusion)
                THEN orig_instantiate_exists(conclusion, counter)
                ELSE [exc |-> "", counter |-> counter, val |-> conclusion]
        fact == inst.val
    IN  IF inst.exc # ""
        THEN [exc |-> inst.exc, facts |-> F, counter |-> inst.counter,
              added |-> FALSE]
        ELSE IF ~IsTuple(fact) \/ ~is_ground(fact)
        THEN [exc |-> "", facts |-> F, counter |-> inst.counter, added |-> FALSE]
        ELSE LET r == orig_add_fact(F, fact)
             IN  [exc |-> r.exc, facts |-> r.facts, counter |-> inst.counter,
                  added |-> r.exc = "" /\ r.val]

\* Mutant of the loop body: no "if self.query(check_pattern): continue".
quiz_body_nocheck(rule, bindings, F, counter) ==
    LET conclusion_term == rule.conclusion
        inst == IF is_exists(conclusion_term)
                THEN quiz_instantiate_exists(
                         substitute(conclusion_term, bindings), counter)
                ELSE [exc |-> "", counter |-> counter,
                      val |-> substitute(conclusion_term, bindings)]
        r == quiz_add_fact(F, inst.val)
    IN  IF inst.exc # ""
        THEN [exc |-> inst.exc, facts |-> F, counter |-> inst.counter,
              added |-> FALSE]
        ELSE [exc |-> r.exc, facts |-> r.facts, counter |-> inst.counter,
              added |-> r.exc = "" /\ r.val]

\* Mutant of the loop body: a fact that was added is not reported.
quiz_body_noflag(rule, bindings, F, counter) ==
    LET conclusion_term == rule.conclusion
        check_pattern == substitute(conclusion_term.t[3], bindings)
        skip == is_exists(conclusion_term)
                /\ \E order \in {SetToSeq(F)} :
                      quiz_query(check_pattern, order) # <<>>
        inst == IF is_exists(conclusion_term)
                THEN quiz_instantiate_exists(
                         substitute(conclusion_term, bindings), counter)
                ELSE [exc |-> "", counter |-> counter,
                      val |-> substitute(conclusion_term, bindings)]
    IN  IF skip
        THEN [exc |-> "", facts |-> F, counter |-> counter, added |-> FALSE]
        ELSE IF inst.exc # ""
        THEN [exc |-> inst.exc, facts |-> F, counter |-> inst.counter,
              added |-> FALSE]
        ELSE LET r == quiz_add_fact(F, inst.val)
             IN  [exc |-> r.exc, facts |-> r.facts, counter |-> inst.counter,
                  added |-> FALSE]

\* body of the loop in src/reasoner_quiz: [exc, facts, counter, added]
quiz_body(rule, bindings, F, counter) ==
    LET conclusion_term == rule.conclusion
        check_pattern == substitute(conclusion_term.t[3], bindings)
        skip == is_exists(conclusion_term)
                /\ \E order \in {SetToSeq(F)} :
                      quiz_query(check_pattern, order) # <<>>
        inst == IF is_exists(conclusion_term)
                THEN quiz_instantiate_exists(
                         substitute(conclusion_term, bindings), counter)
                ELSE [exc |-> "", counter |-> counter,
                      val |-> substitute(conclusion_term, bindings)]
    IN  IF skip
        THEN [exc |-> "", facts |-> F, counter |-> counter, added |-> FALSE]
        ELSE IF inst.exc # ""
        THEN [exc |-> inst.exc, facts |-> F, counter |-> inst.counter,
              added |-> FALSE]
        ELSE LET r == quiz_add_fact(F, inst.val)
             IN  [exc |-> r.exc, facts |-> r.facts, counter |-> inst.counter,
                  added |-> r.exc = "" /\ r.val]

loop_body(rule, theta, F, counter) ==
    IF impl = "orig" THEN orig_body(rule, theta, F, counter)
    ELSE quiz_body(rule, theta, F, counter)

\* A frame of the generator: the premise index idx, the partial substitution
\* cur, the facts its "for fact in ..." has still to deliver (todo), and the
\* size of self.facts when its iterator was made (used).
Frame(idx, cur, F) ==
    [idx |-> idx, cur |-> cur, todo |-> F, used |-> Cardinality(F)]

Top == fc.stack[Len(fc.stack)]

\* src/stage4_predicate iterates the live set: its iterator raises
\* RuntimeError on the next step once the set has changed size.
\* src/reasoner_quiz iterates list(self.facts), a copy.
SetChangedSize ==
    impl = "orig" /\ Cardinality(facts) # Top.used

NoCall == [op |-> "", arg |-> None, exc |-> "", val |-> None]

Returned(op, arg, exc, val) == [op |-> op, arg |-> arg, exc |-> exc, val |-> val]

\* fc before the first forward_chain call: calls counts the calls made,
\* max is max_iterations, it the pass ("for _ in range(max_iterations)"),
\* ri the index of the rule being applied, added is fact_added / new_facts;
\* start records the fact set as it was when the current pass began.
FcIdle == [calls |-> 0, max |-> 0, it |-> 0, ri |-> 0, stack |-> <<>>,
           added |-> FALSE, start |-> {}]

\* gen before _satisfying_substitutions is called: heap[i] is the content of
\* the i-th dict object made, a frame of stack holds the index of its
\* "current" dict, out lists the dicts yielded; path records, for a frame
\* or a yielded dict, the facts chosen for the premises so far.
GenIdle ==
    [on |-> FALSE, premises |-> <<>>, heap |-> <<>>, stack |-> <<>>, out |-> <<>>]

---------------------------------------------------------------------------
(* Inputs of the calls *)

P1(name, a) == Tup(<<Str(name), Str(a)>>)
P2(name, a, b) == Tup(<<Str(name), Str(a), Str(b)>>)

Forall(variables, premises, conclusion) ==
    Tup(<<Str("FORALL"), Lst([i \in 1..Len(variables) |-> Str(variables[i])]),
          Tup(<<Str("IMPLIES"), premises, conclusion>>)>>)

Exists(variables, body) ==
    Tup(<<Str("EXISTS"), Lst([i \in 1..Len(variables) |-> Str(variables[i])]),
          body>>)

And(p, q) == Tup(<<Str("AND"), p, q>>)

\* FORALL x,y: parent(x,y) -> ancestor(x,y)
RuleAnc1 ==
    Forall(<<"?x", "?y">>, P2("parent", "?x", "?y"), P2("ancestor", "?x", "?y"))

\* FORALL x,y,z: parent(x,y) AND ancestor(y,z) -> ancestor(x,z)
RuleAnc2 ==
    Forall(<<"?x", "?y", "?z">>,
           And(P2("parent", "?x", "?y"), P2("ancestor", "?y", "?z")),
           P2("ancestor", "?x", "?z"))

\* FORALL x,y: parent(y,x) -> EXISTS z: mother(z,x)
RuleMother ==
    Forall(<<"?x", "?y">>, P2("parent", "?y", "?x"),
           Exists(<<"?z">>, P2("mother", "?z", "?x")))

GroundFacts == {P2("parent", "alice", "bob"), P2("parent", "bob", "carol")}

\* a variable at the top level; a variable inside a nested tuple;
\* a str; the empty tuple
BadFacts ==
    {P2("parent", "?x", "bob"),
     Tup(<<Str("knows"), Str("alice"), P1("friend", "?x")>>),
     Str("alice"),
     Tup(<<>>)}

FactInputs == GroundFacts \cup BadFacts

RuleInputs == {RuleAnc1, RuleAnc2, RuleMother, Str("junk")}

QueryInputs == {P2("ancestor", "?who", "carol"), P2("parent", "?x", "?x")}

\* bounds: the number of calls one KB receives, and max_iterations
MaxCalls == 4
MaxIter == 3

\* a call is made
Call == pc = "idle" /\ ncalls < MaxCalls /\ ncalls' = ncalls + 1

---------------------------------------------------------------------------
(* The calls on a KB.  pc = "idle" between calls. *)

AddFact(fact) ==
    /\ Call
    /\ LET r == add_fact(facts, fact)
       IN  /\ facts' = r.facts
           /\ ret' = Returned("add_fact", fact, r.exc,
                              IF r.exc = "" THEN Bool(r.val) ELSE None)
    /\ UNCHANGED <<impl, rules, exist_counter, pc, fc, ux, uy, ures, gen, usubs>>

AddRule(rule) ==
    /\ Call
    /\ LET r == add_rule(rules, rule)
       IN  /\ rules' = r.rules
           /\ ret' = Returned("add_rule", rule, r.exc, None)
    /\ UNCHANGED <<impl, facts, exist_counter, pc, fc, ux, uy, ures, gen, usubs>>

\* The answers come in the iteration order of the set, which is any order.
Query(pattern) ==
    /\ Call
    /\ LET matching == {f \in facts : unify(pattern, f, EmptySubs).ok}
       IN  \E first \in Orders(matching) :
             LET answers == query(pattern, first \o SetToSeq(facts \ matching))
             IN  ret' = Returned("query", pattern, "",
                        Lst([i \in 1..Len(answers) |-> Dict(answers[i])]))
    /\ UNCHANGED <<impl, facts, rules, exist_counter, pc, fc, ux, uy, ures, gen, usubs>>

\* Mutant of forward_chain: a call starts the Skolem counter from zero.
ForwardChainReset(n) ==
    /\ Call
    /\ fc' = [calls |-> fc.calls + 1, max |-> n, it |-> IF n > 0 THEN 1 ELSE 0,
              ri |-> 0, stack |-> <<>>, added |-> FALSE, start |-> facts]
    /\ IF n > 0
       THEN pc' = "fc" /\ ret' = NoCall
       ELSE pc' = "idle" /\ ret' = Returned("forward_chain", PyInt(n), "", None)
    /\ exist_counter' = 0
    /\ UNCHANGED <<impl, facts, rules, ux, uy, ures, gen, usubs>>

\* forward_chain(n) is called; range(0) is empty and the call returns at once
ForwardChain(n) ==
    /\ Call
    /\ fc' = [calls |-> fc.calls + 1, max |-> n, it |-> IF n > 0 THEN 1 ELSE 0,
              ri |-> 0, stack |-> <<>>, added |-> FALSE, start |-> facts]
    /\ IF n > 0
       THEN pc' = "fc" /\ ret' = NoCall
       ELSE pc' = "idle" /\ ret' = Returned("forward_chain", PyInt(n), "", None)
    /\ UNCHANGED <<impl, facts, rules, exist_counter, ux, uy, ures, gen, usubs>>

\* forward_chain ends: it returns, or an exception leaves it
FcEnds(exc) ==
    /\ pc' = "idle"
    /\ ret' = Returned("forward_chain", PyInt(fc.max), exc, None)

\* the loop body runs for the substitution theta that the generator yielded
FcYield(theta, stack) ==
    \E b \in {loop_body(rules[fc.ri], theta, facts, exist_counter)} :
        /\ facts' = b.facts
        /\ exist_counter' = b.counter
        /\ fc' = [fc EXCEPT !.stack = stack, !.added = fc.added \/ b.added]
        /\ IF b.exc # "" THEN FcEnds(b.exc) ELSE UNCHANGED <<pc, ret>>

\* Mutant of the start of a rule application: the search starts from a
\* substitution that binds ?x already.
FcRuleShared ==
    /\ pc = "fc" /\ fc.stack = <<>> /\ fc.ri < Len(rules)
    /\ LET rule == rules[fc.ri + 1]
       IN  IF ~IsRule(rule)
           THEN /\ FcEnds("AttributeError")
                /\ fc' = [fc EXCEPT !.ri = fc.ri + 1]
                /\ UNCHANGED <<facts, exist_counter>>
           ELSE IF rule.premises = <<>>
           THEN \E b \in {loop_body(rule, EmptySubs, facts, exist_counter)} :
                    /\ facts' = b.facts
                    /\ exist_counter' = b.counter
                    /\ fc' = [fc EXCEPT !.ri = fc.ri + 1,
                                        !.added = fc.added \/ b.added]
                    /\ IF b.exc # "" THEN FcEnds(b.exc)
                       ELSE UNCHANGED <<pc, ret>>
           ELSE /\ fc' = [fc EXCEPT !.ri = fc.ri + 1,
                                    !.stack = <<Frame(0, "?x" :> Str("alice"),
                                                      facts)>>]
                /\ UNCHANGED <<facts, exist_counter, pc, ret>>
    /\ UNCHANGED <<impl, rules, ncalls, ux, uy, ures, gen, usubs>>

\* "for rule in self.rules" takes the next rule and starts its generator
FcRule ==
    /\ pc = "fc" /\ fc.stack = <<>> /\ fc.ri < Len(rules)
    /\ LET rule == rules[fc.ri + 1]
       IN  IF ~IsRule(rule)
           THEN /\ FcEnds("AttributeError")
                /\ fc' = [fc EXCEPT !.ri = fc.ri + 1]
                /\ UNCHANGED <<facts, exist_counter>>
           ELSE IF rule.premises = <<>>
           THEN \E b \in {loop_body(rule, EmptySubs, facts, exist_counter)} :
                    /\ facts' = b.facts
                    /\ exist_counter' = b.counter
                    /\ fc' = [fc EXCEPT !.ri = fc.ri + 1,
                                        !.added = fc.added \/ b.added]
                    /\ IF b.exc # "" THEN FcEnds(b.exc)
                       ELSE UNCHANGED <<pc, ret>>
           ELSE /\ fc' = [fc EXCEPT !.ri = fc.ri + 1,
                                    !.stack = <<Frame(0, EmptySubs, facts)>>]
                /\ UNCHANGED <<facts, exist_counter, pc, ret>>
    /\ UNCHANGED <<impl, rules, ncalls, ux, uy, ures, gen, usubs>>

\* the top frame's loop takes its next fact and unifies the goal with it
FcTry ==
    /\ pc = "fc" /\ fc.stack # <<>> /\ ~SetChangedSize
    /\ \E fact \in Top.todo :
         LET premises == rules[fc.ri].premises
             goal == substitute(premises[Top.idx + 1], Top.cur)
             rest == [fc.stack EXCEPT ![Len(fc.stack)].todo = Top.todo \ {fact}]
         IN  \E theta \in {unify(goal, fact, Top.cur)} :
             IF ~theta.ok
             THEN /\ fc' = [fc EXCEPT !.stack = rest]
                  /\ UNCHANGED <<facts, exist_counter, pc, ret>>
             ELSE IF Top.idx + 1 = Len(premises)
             THEN FcYield(theta.s, rest)
             ELSE /\ fc' = [fc EXCEPT !.stack =
                                Append(rest, Frame(Top.idx + 1, theta.s, facts))]
                  /\ UNCHANGED <<facts, exist_counter, pc, ret>>
    /\ UNCHANGED <<impl, rules, ncalls, ux, uy, ures, gen, usubs>>

\* the top frame's loop is exhausted: the frame returns
FcPop ==
    /\ pc = "fc" /\ fc.stack # <<>> /\ ~SetChangedSize
    /\ Top.todo = {}
    /\ fc' = [fc EXCEPT !.stack = SubSeq(fc.stack, 1, Len(fc.stack) - 1)]
    /\ UNCHANGED <<impl, facts, rules, exist_counter, pc, ret, ncalls, ux, uy, ures, gen, usubs>>

\* "Set changed size during iteration"
FcRaise ==
    /\ pc = "fc" /\ fc.stack # <<>> /\ SetChangedSize
    /\ FcEnds("RuntimeError")
    /\ UNCHANGED <<impl, facts, rules, exist_counter, fc, ncalls, ux, uy, ures, gen, usubs>>

\* Mutant of the end of a pass: no "if not fact_added: break".
FcPassEndNoBreak ==
    /\ pc = "fc" /\ fc.stack = <<>> /\ fc.ri = Len(rules)
    /\ IF fc.it = fc.max
       THEN FcEnds("") /\ UNCHANGED fc
       ELSE /\ fc' = [fc EXCEPT !.it = fc.it + 1, !.ri = 0, !.added = FALSE,
                               !.start = facts]
            /\ UNCHANGED <<pc, ret>>
    /\ UNCHANGED <<impl, facts, rules, exist_counter, ncalls, ux, uy, ures, gen, usubs>>

\* the pass over the rule list is over
FcPassEnd ==
    /\ pc = "fc" /\ fc.stack = <<>> /\ fc.ri = Len(rules)
    /\ IF ~fc.added \/ fc.it = fc.max
       THEN FcEnds("") /\ UNCHANGED fc
       ELSE /\ fc' = [fc EXCEPT !.it = fc.it + 1, !.ri = 0, !.added = FALSE,
                               !.start = facts]
            /\ UNCHANGED <<pc, ret>>
    /\ UNCHANGED <<impl, facts, rules, exist_counter, ncalls, ux, uy, ures, gen, usubs>>

FcStep == FcRule \/ FcTry \/ FcPop \/ FcRaise \/ FcPassEnd

---------------------------------------------------------------------------
(* A KB made by KB() and used through its methods *)

Init ==
    /\ impl \in {"orig", "quiz"}
    /\ facts = {}
    /\ rules = <<>>
    /\ exist_counter = 0
    /\ pc = "idle"
    /\ fc = FcIdle
    /\ ret = NoCall
    /\ ncalls = 0
    /\ ux = None /\ uy = None /\ ures = None
    /\ gen = GenIdle /\ usubs = EmptySubs

Next ==
    \/ \E fact \in FactInputs : AddFact(fact)
    \/ \E rule \in RuleInputs : AddRule(rule)
    \/ \E pattern \in QueryInputs : Query(pattern)
    \/ \E n \in 0..MaxIter : ForwardChain(n)
    \/ FcStep

Spec == Init /\ [][Next]_vars

---------------------------------------------------------------------------
(* unify called directly on two terms, with no substitution given *)

InitUnify ==
    /\ impl \in {"orig", "quiz"}
    /\ ux \in UTerms /\ uy \in UTerms
    /\ ures = None /\ gen = GenIdle /\ usubs = EmptySubs
    /\ facts = {} /\ rules = <<>> /\ exist_counter = 0
    /\ pc = "idle" /\ fc = FcIdle /\ ret = NoCall /\ ncalls = 0

\* unify(ux, uy): "if subs is None: subs = {}".  The call may be made again
\* with the same arguments.
UnifyCall ==
    /\ ncalls \in {0, 1}
    /\ ncalls' = 1
    /\ ures' = unify(ux, uy, EmptySubs)
    /\ UNCHANGED <<impl, facts, rules, exist_counter, pc, fc, ret, ux, uy, gen, usubs>>

NextUnify == UnifyCall

SpecUnify == InitUnify /\ [][NextUnify]_vars

\* unify(ux, uy) has returned
UnifyReturned == ures # None

---------------------------------------------------------------------------
(* The parent/ancestor knowledge base:                                     *)
(*   KB([parent(alice,bob), parent(bob,carol)], [RuleAnc1, RuleAnc2])      *)
(* on which forward_chain() and query(ancestor(?who, carol)) are called.   *)

DefaultMaxIterations == 50

AncFacts == <<P2("parent", "alice", "bob"), P2("parent", "bob", "carol")>>

AncRules == <<RuleAnc1, RuleAnc2>>

AncPattern == P2("ancestor", "?who", "carol")

\* a KB made by KB(factsIn, rulesIn) of either module
InitKB(factsIn, rulesIn) ==
    /\ impl \in {"orig", "quiz"}
    /\ facts = init_facts({}, factsIn, 1).facts
    /\ rules = init_rules(<<>>, rulesIn, 1).rules
    /\ exist_counter = 0
    /\ pc = "idle" /\ fc = FcIdle /\ ret = NoCall /\ ncalls = 0
    /\ ux = None /\ uy = None /\ ures = None
    /\ gen = GenIdle /\ usubs = EmptySubs

InitAnc == InitKB(AncFacts, AncRules)

NextAnc ==
    \/ ForwardChain(DefaultMaxIterations)
    \/ Query(AncPattern)
    \/ FcStep

SpecAnc == InitAnc /\ [][NextAnc]_vars

---------------------------------------------------------------------------
(* The existential knowledge base:                                         *)
(*   KB([parent(ann,bob), parent(tom,bob), parent(ann,carol)],             *)
(*      [FORALL x,y: parent(y,x) -> EXISTS z: mother(z,x)])                *)
(* Two premise substitutions bind ?x to bob.  The caller may add a third   *)
(* parent of bob, or a mother and then a parent of dan, between calls of   *)
(* forward_chain.                                                          *)

ExFacts ==
    <<P2("parent", "ann", "bob"), P2("parent", "tom", "bob"),
      P2("parent", "ann", "carol")>>

ExRules == <<RuleMother>>

ExAdded ==
    {P2("parent", "sue", "bob"), P2("mother", "eve", "dan"),
     P2("parent", "ann", "dan")}

InitEx == InitKB(ExFacts, ExRules)

NextEx ==
    \/ ForwardChain(DefaultMaxIterations)
    \/ \E fact \in ExAdded : AddFact(fact)
    \/ FcStep

SpecEx == InitEx /\ [][NextEx]_vars

---------------------------------------------------------------------------
(* One call of forward_chain(n) on a KB.  The KB is the parent/ancestor    *)
(* one, or one whose rules mint Skolem constants without end:              *)
(*   KB([person(adam)], [FORALL x: person(x) -> EXISTS z: parent(z,x),     *)
(*                       FORALL z,x: parent(z,x) -> person(z)])            *)
(* forward_chain is straight-line sequential code: once called, it keeps   *)
(* taking steps until it returns or raises (weak fairness of FcStep).      *)

RuleSk1 ==
    Forall(<<"?x">>, P1("person", "?x"),
           Exists(<<"?z">>, P2("parent", "?z", "?x")))

RuleSk2 == Forall(<<"?z", "?x">>, P2("parent", "?z", "?x"), P1("person", "?z"))

SkFacts == <<P1("person", "adam")>>

SkRules == <<RuleSk1, RuleSk2>>

InitTerm == InitKB(SkFacts, SkRules) \/ InitKB(AncFacts, AncRules)

NextTerm ==
    \/ \E n \in 0..MaxIter : fc.calls = 0 /\ ForwardChain(n)
    \/ FcStep

SpecTerm == InitTerm /\ [][NextTerm]_vars /\ WF_vars(FcStep)

---------------------------------------------------------------------------
(* Claims *)

\* No variable anywhere in v, nested tuples included.
RECURSIVE DeepGround(_)
DeepGround(v) ==
    IF IsStr(v) THEN v.s \notin VarNames
    ELSE IF IsTuple(v) THEN \A i \in 1..Len(v.t) : DeepGround(v.t[i])
    ELSE IF IsList(v) THEN \A i \in 1..Len(v.l) : DeepGround(v.l[i])
    ELSE TRUE

\* The variable named var occurs in v at some depth.
RECURSIVE OccursIn(_, _)
OccursIn(var, v) ==
    IF IsStr(v) THEN v.s = var
    ELSE IF IsTuple(v) THEN \E i \in 1..Len(v.t) : OccursIn(var, v.t[i])
    ELSE FALSE

\* C1: in both KBs, add_fact(f) of a ground predicate f that is not in the
\* fact set returns True and adds exactly f (the set grows by one), and
\* add_fact(f) of an f that is in the set returns False and changes nothing;
\* so the first of two calls returns True, the second False, and the set
\* grows by exactly one over the two.
C1_AddFactTwice ==
    [][\A f \in GroundFacts :
          AddFact(f) =>
             IF f \in facts
             THEN ret'.exc = "" /\ ret'.val = Bool(FALSE) /\ facts' = facts
             ELSE /\ ret'.exc = "" /\ ret'.val = Bool(TRUE)
                  /\ facts' = facts \cup {f}
                  /\ Cardinality(facts') = Cardinality(facts) + 1]_vars

\* the second add_fact(f) of a ground f has returned False
C1_Witness ==
    /\ ret.op = "add_fact" /\ ret.arg \in GroundFacts
    /\ ret.exc = "" /\ ret.val = Bool(FALSE) /\ ret.arg \in facts

\* C2: in the KB of src/stage4_predicate, every member of the fact set is
\* ground: it holds no variable at any depth.
C2_FactsDeepGround ==
    impl = "orig" => \A f \in facts : DeepGround(f)

\* C3: in the KB of src/reasoner_quiz, add_fact of a predicate that holds a
\* variable fails validation and leaves the fact set unchanged.
C3_QuizRejectsNonGround ==
    (impl = "quiz" /\ ret.op = "add_fact" /\ IsTuple(ret.arg)
     /\ ~DeepGround(ret.arg))
        => (ret.exc = "ValueError" /\ ret.arg \notin facts)

\* C4: if unify(a, b, {}) returns a substitution s, then
\* substitute(a, s) = substitute(b, s), for both modules.
C4_UnifySound ==
    (UnifyReturned /\ ures.ok) => substitute(ux, ures.s) = substitute(uy, ures.s)

\* C5: for both modules, unify of a variable X with a tuple that holds X at
\* any depth, in either argument order and from the empty substitution,
\* returns None.
C5_OccursCheck ==
    (/\ UnifyReturned
     /\ \/ is_variable(ux) /\ IsTuple(uy) /\ OccursIn(ux.s, uy)
        \/ is_variable(uy) /\ IsTuple(ux) /\ OccursIn(uy.s, ux))
        => ~ures.ok

\* unify(?x, (a, (?x,))) of src/reasoner_quiz has returned None
C5_Witness ==
    /\ UnifyReturned /\ impl = "quiz"
    /\ ux = Str("?x")
    /\ uy = Tup(<<Str("a"), Tup(<<Str("?x")>>)>>)
    /\ ~ures.ok

\* C6: in both KBs no step of add_fact, add_rule, query or forward_chain
\* (a step that raises included) removes a fact: the fact set after it holds
\* every fact it held before.
C6_Monotonic == [][facts \subseteq facts']_vars

\* forward_chain of src/stage4_predicate raised after it had derived a fact
C6_Witness ==
    /\ ret.op = "forward_chain" /\ ret.exc = "RuntimeError"
    /\ P2("ancestor", "alice", "bob") \in facts
    /\ P2("parent", "alice", "bob") \in facts

AncClosure ==
    {P2("parent", "alice", "bob"), P2("parent", "bob", "carol"),
     P2("ancestor", "alice", "bob"), P2("ancestor", "bob", "carol"),
     P2("ancestor", "alice", "carol")}

\* C7: on the parent/ancestor KB of src/reasoner_quiz, whatever the order in
\* which the fact set is iterated, forward_chain() returns with the fact set
\* equal to the two parent facts plus ancestor(alice,bob),
\* ancestor(bob,carol), ancestor(alice,carol), and a further forward_chain()
\* adds nothing and does not raise.
C7_AncFixpoint ==
    impl = "quiz" =>
        /\ (pc = "idle" /\ fc.calls >= 1) => facts = AncClosure
        /\ fc.calls >= 2 => facts = AncClosure
        /\ ret.op = "forward_chain" => ret.exc = ""

\* the second forward_chain() of src/reasoner_quiz has returned
C7_Witness ==
    /\ impl = "quiz" /\ pc = "idle" /\ fc.calls = 2
    /\ ret.op = "forward_chain" /\ ret.exc = ""
    /\ facts = AncClosure

WhoIs(c) == Dict("?who" :> Str(c))

\* C8: on the parent/ancestor KB of src/reasoner_quiz, after forward_chain,
\* query(ancestor(?who, carol)) returns exactly two substitutions, one
\* binding ?who to alice and one binding ?who to bob.
C8_QueryAnc ==
    (impl = "quiz" /\ ret.op = "query" /\ fc.calls >= 1)
        => ret.val \in {Lst(<<WhoIs("alice"), WhoIs("bob")>>),
                        Lst(<<WhoIs("bob"), WhoIs("alice")>>)}

\* the query has returned bob before alice
C8_Witness ==
    /\ impl = "quiz" /\ ret.op = "query" /\ fc.calls >= 1
    /\ ret.val = Lst(<<WhoIs("bob"), WhoIs("alice")>>)

\* the facts mother(_, x) of F
MothersOf(F, x) ==
    {f \in F : IsTuple(f) /\ Len(f.t) = 3 /\ f.t[1] = Str("mother")
               /\ f.t[3] = Str(x)}

\* c is a constant that this KB has minted or could mint next
IsSkolem(c) ==
    IsStr(c) /\ \E i \in 0..(exist_counter + 1) : c.s = SkolemName(i)

SkolemMothers(F) ==
    {f \in F : IsTuple(f) /\ Len(f.t) = 3 /\ f.t[1] = Str("mother")
               /\ IsSkolem(f.t[2])}

ExPeople == {"bob", "carol", "dan"}

\* C9: in the KB of src/reasoner_quiz with the rule
\* parent(y,x) -> EXISTS z: mother(z,x), at most one Skolem constant is minted
\* for a binding of ?x: no x has two facts mother(_skN, x), every constant
\* minted is in exactly one such fact, and once some fact mother(c, x) is in
\* the fact set no step of forward_chain adds another mother(_, x), within a
\* pass, across passes and across calls.
C9_OneSkolemPerX ==
    /\ [](impl = "quiz" =>
            /\ \A x \in ExPeople :
                 Cardinality(MothersOf(facts, x) \cap SkolemMothers(facts)) <= 1
            /\ exist_counter = Cardinality(SkolemMothers(facts)))
    /\ [][(impl = "quiz" /\ pc = "fc") =>
            \A x \in ExPeople :
               MothersOf(facts, x) # {}
                  => MothersOf(facts', x) = MothersOf(facts, x)]_vars

\* a second forward_chain has returned after parent(sue,bob) was added:
\* bob and carol each have the one mother minted for them
C9_Witness ==
    /\ impl = "quiz" /\ pc = "idle" /\ fc.calls = 2
    /\ ret.op = "forward_chain"
    /\ P2("parent", "sue", "bob") \in facts
    /\ Cardinality(MothersOf(facts, "bob")) = 1
    /\ Cardinality(MothersOf(facts, "carol")) = 1
    /\ exist_counter = 2

\* C10: forward_chain(n) of src/reasoner_quiz makes at most n passes over
\* the rule list, begins another pass only after a pass that added a fact,
\* returns when a pass added nothing or the n passes are used up (also with
\* rules that would mint Skolem constants without end), always returns, and
\* forward_chain(0) changes nothing.
C10_Terminates ==
    /\ [](impl = "quiz" =>
            /\ pc = "fc" => (1 <= fc.it /\ fc.it <= fc.max)
            /\ (pc = "idle" /\ ret.op = "forward_chain") =>
                 /\ ret.exc = "" /\ fc.it <= fc.max
                 /\ fc.max > 0 => (facts = fc.start \/ fc.it = fc.max)
                 /\ fc.max = 0 => (facts = fc.start /\ fc.it = 0))
    /\ [][impl = "quiz" =>
            /\ (pc = "fc" /\ fc'.it # fc.it) =>
                 (fc'.it = fc.it + 1 /\ facts # fc.start)
            /\ (pc = "idle" /\ pc' = "idle") =>
                 (facts' = facts /\ rules' = rules
                  /\ exist_counter' = exist_counter)]_vars
    /\ (pc = "fc" ~> pc = "idle")

\* forward_chain(MaxIter) on the KB that mints without end has used up its
\* passes: every pass minted one constant
C10_Witness ==
    /\ impl = "quiz" /\ pc = "idle" /\ ret.op = "forward_chain"
    /\ fc.max = MaxIter /\ fc.it = MaxIter /\ fc.added
    /\ exist_counter = MaxIter

---------------------------------------------------------------------------
(* A KB that is given malformed facts and rules:                           *)
(*   KB([parent(alice,bob)]) and then add_fact, add_rule, forward_chain    *)
(* with arguments that the validation of src/stage4_predicate looks at.    *)

\* not a tuple
BadRuleStr == Str("junk")

\* a FORALL tuple of length 2
BadRuleShort == Tup(<<Str("FORALL"), Lst(<<Str("?x")>>)>>)

\* the variable part is None, not a list or tuple
BadRuleVars ==
    Tup(<<Str("FORALL"), None,
          Tup(<<Str("IMPLIES"), P1("person", "?x"), P1("mortal", "?x")>>)>>)

\* the body is not tagged IMPLIES
BadRuleBody == Tup(<<Str("FORALL"), Lst(<<Str("?x")>>), P2("parent", "?x", "?y")>>)

\* the premise is a str
BadRulePremise == Forall(<<"?x">>, Str("person"), P1("mortal", "?x"))

\* the second premise is the empty tuple
BadRulePremise2 ==
    Forall(<<"?x">>, And(P1("person", "?x"), Tup(<<>>)), P1("mortal", "?x"))

BadRules ==
    {BadRuleStr, BadRuleShort, BadRuleVars, BadRuleBody, BadRulePremise,
     BadRulePremise2}

\* FORALL x,y: parent(y,x) -> EXISTS ["?z", "w"]: mother(?z, x)
\* (the second existential name has no leading "?")
RuleBadExName ==
    Forall(<<"?x", "?y">>, P2("parent", "?y", "?x"),
           Tup(<<Str("EXISTS"), Lst(<<Str("?z"), Str("w")>>),
                 P2("mother", "?z", "?x")>>))

\* FORALL x,y: parent(y,x) -> EXISTS None: mother(?z, x)
\* (the existential variable part is not a list or tuple)
RuleBadExVars ==
    Forall(<<"?x", "?y">>, P2("parent", "?y", "?x"),
           Tup(<<Str("EXISTS"), None, P2("mother", "?z", "?x")>>))

ErrFacts == BadFacts \cup {P2("parent", "bob", "carol")}

ErrRules == BadRules \cup {RuleBadExName, RuleBadExVars, RuleAnc1}

InitErr == InitKB(<<P2("parent", "alice", "bob")>>, <<>>)

NextErr ==
    \/ \E fact \in ErrFacts : AddFact(fact)
    \/ \E rule \in ErrRules : AddRule(rule)
    \/ ForwardChain(DefaultMaxIterations)
    \/ FcStep

SpecErr == InitErr /\ [][NextErr]_vars

\* the facts that the validation of src/stage4_predicate rejects
RejectedFacts == {Str("alice"), Tup(<<>>), P2("parent", "?x", "bob")}

\* C11: in the KB of src/stage4_predicate, add_fact of a non-tuple, an empty
\* tuple or a fact with a variable argument, and add_rule of each malformed
\* rule (not a 3-tuple tagged FORALL, variable part not a list/tuple, body
\* not a 3-tuple tagged IMPLIES, premise not a non-empty tuple) raise
\* ValueError, and whenever add_fact or add_rule raises, the fact set, the
\* rule list and the Skolem counter are what they were before the call.
C11_FailedCallChangesNothing ==
    [][impl = "orig" =>
         /\ \A fact \in RejectedFacts : AddFact(fact) => ret'.exc = "ValueError"
         /\ \A rule \in BadRules : AddRule(rule) => ret'.exc = "ValueError"
         /\ (ret' # ret /\ ret'.op \in {"add_fact", "add_rule"} /\ ret'.exc # "")
               => (facts' = facts /\ rules' = rules
                   /\ exist_counter' = exist_counter)]_vars

\* add_rule of the rule with an empty second premise has raised on a KB
\* that holds two facts and a rule
C11_Witness ==
    /\ impl = "orig" /\ ret.op = "add_rule" /\ ret.arg = BadRulePremise2
    /\ ret.exc = "ValueError"
    /\ Cardinality(facts) = 2 /\ Len(rules) = 1

\* C12: in the KB of src/stage4_predicate, forward_chain never raises a
\* validation error (a malformed rule, also one with a malformed existential
\* variable list in its conclusion, is refused by add_rule).
C12_ForwardChainNeverValueError ==
    (impl = "orig" /\ ret.op = "forward_chain") => ret.exc # "ValueError"

\* C13: in the KB of src/reasoner_quiz, every entry of the rule list is a
\* Rule (add_rule of an expression that is not a FORALL tuple is refused and
\* appends nothing).
C13_RulesAreRules ==
    impl = "quiz" => \A i \in 1..Len(rules) : IsRule(rules[i])

---------------------------------------------------------------------------
(* A KB of ground facts that is queried:                                   *)
(*   KB(S) for any set S of the facts below, then add_fact and query.      *)

QFacts ==
    {P2("parent", "alice", "bob"), P2("parent", "bob", "bob"),
     P2("parent", "carol", "carol"), P1("person", "alice")}

\* a repeated variable; two variables; a constant and a variable; another
\* arity; another tag; no variable
QPatterns ==
    {P2("parent", "?x", "?x"), P2("parent", "?x", "?y"),
     P2("parent", "alice", "?y"), P1("parent", "?x"),
     P2("likes", "?x", "?y"), P2("parent", "bob", "bob")}

InitQuery == \E S \in SUBSET QFacts : InitKB(SetToSeq(S), <<>>)

NextQuery ==
    \/ \E fact \in QFacts : AddFact(fact)
    \/ \E pattern \in QPatterns : Query(pattern)

SpecQuery == InitQuery /\ [][NextQuery]_vars

\* the ground fact f is an instance of the flat pattern p: same length, the
\* constants of p in place, and equal values wherever p repeats a variable
PatMatches(p, f) ==
    /\ IsTuple(f) /\ Len(f.t) = Len(p.t)
    /\ \A i \in 1..Len(p.t) : ~is_variable(p.t[i]) => f.t[i] = p.t[i]
    /\ \A i, j \in 1..Len(p.t) : p.t[i] = p.t[j] => f.t[i] = f.t[j]

\* the substitution that turns p into its instance f
Binding(p, f) ==
    [v \in {p.t[i].s : i \in {k \in 1..Len(p.t) : is_variable(p.t[k])}} |->
        f.t[CHOOSE i \in 1..Len(p.t) : p.t[i] = Str(v)]]

\* C14: in both KBs, query(pattern) on a set of ground facts returns without
\* an error a list with one substitution for each fact that is an instance
\* of the pattern, namely the one that turns the pattern into that fact, and
\* nothing else: its length is the number of such facts, it is empty when
\* the arity or the tag fits no fact, and a pattern with a repeated variable
\* gets only the facts with equal values at those places.
C14_QueryOnePerMatch ==
    ret.op = "query" =>
        LET p == ret.arg
            ans == ret.val.l
            M == {f \in facts : PatMatches(p, f)}
        IN  /\ ret.exc = ""
            /\ Len(ans) = Cardinality(M)
            /\ \A f \in M : \E i \in 1..Len(ans) : ans[i] = Dict(Binding(p, f))
            /\ \A i \in 1..Len(ans) : substitute(p, ans[i].d) \in M

\* parent(?x, ?x) has been asked of the four facts in src/stage4_predicate:
\* two answers
C14_Witness ==
    /\ impl = "orig" /\ ret.op = "query" /\ ret.arg = P2("parent", "?x", "?x")
    /\ facts = QFacts /\ Len(ret.val.l) = 2

---------------------------------------------------------------------------
(* What a set of rules derives from a set of ground facts, read off the     *)
(* rules themselves: a rule fires for every way of choosing one fact per    *)
(* premise such that the premises are turned into these facts by one        *)
(* assignment of values to their variables.                                 *)

\* the facts fs are instances of the premises ps under one assignment
JointMatch(ps, fs) ==
    /\ \A i \in 1..Len(ps) :
         /\ IsTuple(ps[i]) /\ IsTuple(fs[i]) /\ Len(ps[i].t) = Len(fs[i].t)
         /\ \A k \in 1..Len(ps[i].t) :
              ~is_variable(ps[i].t[k]) => fs[i].t[k] = ps[i].t[k]
    /\ \A i, j \in 1..Len(ps) :
         \A k \in 1..Len(ps[i].t), l \in 1..Len(ps[j].t) :
            ps[i].t[k] = ps[j].t[l] => fs[i].t[k] = fs[j].t[l]

\* that assignment
JointBinding(ps, fs) ==
    [v \in {w \in VarNames :
              \E i \in 1..Len(ps) : \E k \in 1..Len(ps[i].t) : ps[i].t[k] = Str(w)}
       |-> LET i == CHOOSE i \in 1..Len(ps) :
                       \E k \in 1..Len(ps[i].t) : ps[i].t[k] = Str(v)
               k == CHOOSE k \in 1..Len(ps[i].t) : ps[i].t[k] = Str(v)
           IN  fs[i].t[k]]

\* the conclusions of the rules in RS for the facts F
Level(RS, F) ==
    UNION {{substitute(r.conclusion, JointBinding(r.premises, fs)) :
              fs \in {q \in [1..Len(r.premises) -> F] : JointMatch(r.premises, q)}}
           : r \in {r \in RS : IsRule(r)}}

\* the least set that holds F and is closed under the rules in RS
RECURSIVE Closure(_, _)
Closure(RS, F) ==
    IF Level(RS, F) \subseteq F THEN F ELSE Closure(RS, F \cup Level(RS, F))

Range(q) == {q[i] : i \in 1..Len(q)}

---------------------------------------------------------------------------
(* The parent/ancestor KB to which rules are added again and again:        *)
(*   KB([parent(alice,bob), parent(bob,carol)]), then add_rule and         *)
(*   forward_chain in any order.                                           *)

\* FORALL: -> sunny(today), a rule without premises
RuleSunny == Forall(<<>>, None, P1("sunny", "today"))

DupRules == {RuleAnc1, RuleAnc2, RuleSunny}

InitDup == InitKB(AncFacts, <<>>)

NextDup ==
    \/ \E rule \in DupRules : AddRule(rule)
    \/ ForwardChain(DefaultMaxIterations)
    \/ FcStep

SpecDup == InitDup /\ [][NextDup]_vars

\* C15: in both KBs, add_rule of a well-formed rule returns normally and
\* appends one Rule with that conclusion at the end of the rule list, the
\* earlier rules staying as they were and in their order, also when the
\* same rule is in the list already; and when forward_chain returns
\* normally, the fact set is the closure of the initial facts under the set
\* of the rules, however many copies of a rule the list holds.
C15_RulesNeverDeduplicated ==
    /\ [][\A rule \in DupRules : AddRule(rule) =>
            /\ ret'.exc = ""
            /\ Len(rules') = Len(rules) + 1
            /\ SubSeq(rules', 1, Len(rules)) = rules
            /\ IsRule(rules'[Len(rules')])
            /\ rules'[Len(rules')].conclusion = rule.t[3].t[3]]_vars
    /\ []((pc = "idle" /\ ret.op = "forward_chain" /\ ret.exc = "")
            => facts = Closure(Range(rules), Range(AncFacts)))

\* src/reasoner_quiz has reached the fixpoint with two copies of the first
\* ancestor rule in its list
C15_Witness ==
    /\ impl = "quiz" /\ pc = "idle" /\ ret.op = "forward_chain" /\ ret.exc = ""
    /\ Len(rules) = 3 /\ rules[1] = rules[2] /\ rules[3] # rules[1]
    /\ facts = AncClosure

\* C16: in the KB of src/reasoner_quiz, while forward_chain is in a pass,
\* every fact that the pass has added so far is a conclusion of some rule
\* for facts that were in the fact set when the pass began (a fact derived
\* in a pass is not matched by a premise before the next pass).
C16_LevelByLevel ==
    (impl = "quiz" /\ pc = "fc")
        => facts \subseteq fc.start \cup Level(Range(rules), fc.start)

---------------------------------------------------------------------------
(* A KB with a universal and an existential rule for the same predicate,   *)
(* the two rules given in either order:                                    *)
(*   KB([parent(ann,bob), parent(ann,carol)],                              *)
(*      [FORALL x,y: parent(y,x) -> mother(y,x),                           *)
(*       FORALL x,y: parent(y,x) -> EXISTS z: mother(z,x)])                *)

RuleMotherIs ==
    Forall(<<"?x", "?y">>, P2("parent", "?y", "?x"), P2("mother", "?y", "?x"))

OrdFacts == <<P2("parent", "ann", "bob"), P2("parent", "ann", "carol")>>

InitOrd ==
    \/ InitKB(OrdFacts, <<RuleMotherIs, RuleMother>>)
    \/ InitKB(OrdFacts, <<RuleMother, RuleMotherIs>>)

NextOrd == ForwardChain(DefaultMaxIterations) \/ FcStep

SpecOrd == InitOrd /\ [][NextOrd]_vars

\* what forward_chain ends with when the universal rule is first in the list
OrdFinal ==
    Range(OrdFacts) \cup {P2("mother", "ann", "bob"), P2("mother", "ann", "carol")}

\* C17: in the KB of src/reasoner_quiz, forward_chain ends with the same
\* fact set for every order of the rule list and every iteration order of
\* the fact set: with the two rules above in either order it ends with the
\* set it ends with when the universal rule is first.
C17_OrderIndependent ==
    (impl = "quiz" /\ pc = "idle" /\ ret.op = "forward_chain") => facts = OrdFinal

\* C18: in the KB of src/stage4_predicate, forward_chain on the
\* parent/ancestor KB runs to completion: it does not end with Python's
\* "Set changed size during iteration" RuntimeError.
C18_NoSetChangedSize ==
    (impl = "orig" /\ ret.op = "forward_chain") => ret.exc = ""

---------------------------------------------------------------------------
(* _satisfying_substitutions driven directly, on a KB whose fact set stays *)
(* as it is during the search.  Dicts are objects: heap[i] is the content  *)
(* of the i-th dict made, and frames and yielded values hold indexes, so   *)
(* that two names for one dict see each other's updates.                   *)

\* Mutant of the argument passed to unify: "current" itself, not a copy.
orig_pass_shared(h, id) == [heap |-> h, id |-> id]

\* backtrack: dict(current), a new dict with the same content
orig_pass(h, id) == [heap |-> Append(h, h[id]), id |-> Len(h) + 1]

\* dfs_search: current_subs.copy()
quiz_pass(h, id) == [heap |-> Append(h, h[id]), id |-> Len(h) + 1]

\* unify(goal, fact, arg) of src/stage4_predicate: the dict arg is updated
\* in place, also by a call that ends in None; the dict returned is arg
orig_gen_unify(h, goal, fact, arg) ==
    Only({[ok |-> r.ok, heap |-> [h EXCEPT ![arg] = r.s], id |-> arg] :
          r \in {orig_unify(goal, fact, h[arg])}})

\* unify(goal, fact, arg) of src/reasoner_quiz: arg is never updated; the
\* dict returned is arg when no binding was made, a new dict otherwise
quiz_gen_unify(h, goal, fact, arg) ==
    Only({IF r.ok /\ r.s # h[arg]
          THEN [ok |-> TRUE, heap |-> Append(h, r.s), id |-> Len(h) + 1]
          ELSE [ok |-> r.ok, heap |-> h, id |-> arg] :
          r \in {quiz_unify(goal, fact, h[arg])}})

\* backtrack: yield dict(current)
orig_gen_yield(h, id) == [heap |-> Append(h, h[id]), id |-> Len(h) + 1]

\* dfs_search: yield current_subs
quiz_gen_yield(h, id) == [heap |-> h, id |-> id]

\* Mutant of the loop: the search ends with the first value yielded.
gen_resume_stop(stack) == <<>>

\* after a yield the generator is resumed where it was: the frames stay
gen_resume(stack) == stack

\* a frame of backtrack/dfs_search: goal is computed when the frame starts
GenFrame(idx, cur, h, F, path) ==
    [idx |-> idx, cur |-> cur, goal |-> substitute(gen.premises[idx + 1], h[cur]),
     todo |-> F, path |-> path]

GenTop == gen.stack[Len(gen.stack)]

\* the generator is exhausted
GenDone == gen.on /\ gen.stack = <<>>

\* _satisfying_substitutions(premises) is called and its generator started
GenStart(premises) ==
    /\ pc = "idle" /\ ~gen.on
    /\ IF premises = <<>>
       THEN \E y \in {IF impl = "orig" THEN orig_gen_yield(<<EmptySubs>>, 1)
                      ELSE quiz_gen_yield(<<EmptySubs>>, 1)} :
              gen' = [on |-> TRUE, premises |-> premises, heap |-> y.heap,
                      stack |-> <<>>,
                      out |-> <<[id |-> y.id, path |-> <<>>]>>]
       ELSE gen' = [on |-> TRUE, premises |-> premises, heap |-> <<EmptySubs>>,
                    stack |-> <<[idx |-> 0, cur |-> 1,
                                 goal |-> substitute(premises[1], EmptySubs),
                                 todo |-> facts, path |-> <<>>]>>,
                    out |-> <<>>]
    /\ UNCHANGED <<impl, facts, rules, exist_counter, pc, fc, ret, ncalls,
                   ux, uy, ures, usubs>>

\* the top frame's loop takes its next fact and unifies its goal with it
GenTry ==
    /\ pc = "idle" /\ gen.on /\ gen.stack # <<>>
    /\ \E fact \in GenTop.todo :
       \E p \in {IF impl = "orig" THEN orig_pass(gen.heap, GenTop.cur)
                 ELSE quiz_pass(gen.heap, GenTop.cur)} :
       \E u \in {IF impl = "orig"
                 THEN orig_gen_unify(p.heap, GenTop.goal, fact, p.id)
                 ELSE quiz_gen_unify(p.heap, GenTop.goal, fact, p.id)} :
         LET rest == [gen.stack EXCEPT
                        ![Len(gen.stack)].todo = GenTop.todo \ {fact}]
             path == Append(GenTop.path, fact)
         IN  IF ~u.ok
             THEN gen' = [gen EXCEPT !.heap = u.heap, !.stack = rest]
             ELSE IF GenTop.idx + 1 = Len(gen.premises)
             THEN \E y \in {IF impl = "orig" THEN orig_gen_yield(u.heap, u.id)
                            ELSE quiz_gen_yield(u.heap, u.id)} :
                    gen' = [gen EXCEPT
                              !.heap = y.heap,
                              !.stack = gen_resume(rest),
                              !.out = Append(gen.out,
                                             [id |-> y.id, path |-> path])]
             ELSE gen' = [gen EXCEPT
                            !.heap = u.heap,
                            !.stack = Append(rest,
                                GenFrame(GenTop.idx + 1, u.id, u.heap, facts,
                                         path))]
    /\ UNCHANGED <<impl, facts, rules, exist_counter, pc, fc, ret, ncalls,
                   ux, uy, ures, usubs>>

\* the top frame's loop is exhausted: the frame returns
GenPop ==
    /\ pc = "idle" /\ gen.on /\ gen.stack # <<>>
    /\ GenTop.todo = {}
    /\ gen' = [gen EXCEPT !.stack = SubSeq(gen.stack, 1, Len(gen.stack) - 1)]
    /\ UNCHANGED <<impl, facts, rules, exist_counter, pc, fc, ret, ncalls,
                   ux, uy, ures, usubs>>

SolveFacts ==
    {P2("parent", "alice", "bob"), P2("parent", "alice", "carol"),
     P2("parent", "bob", "carol"), P2("ancestor", "bob", "carol")}

\* no premise; one premise; a constant in a premise; a variable shared by
\* two premises in a chain, with two tags, and in the first place of both
SolvePremises ==
    {<<>>,
     <<P2("parent", "?x", "?y")>>,
     <<P2("parent", "?x", "carol")>>,
     <<P2("parent", "?x", "?y"), P2("parent", "?y", "?z")>>,
     <<P2("parent", "?x", "?y"), P2("ancestor", "?y", "?z")>>,
     <<P2("parent", "?x", "?y"), P2("parent", "?x", "?z")>>}

InitSolve == \E S \in SUBSET SolveFacts : InitKB(SetToSeq(S), <<>>)

NextSolve ==
    \/ \E premises \in SolvePremises : GenStart(premises)
    \/ GenTry
    \/ GenPop

SpecSolve == InitSolve /\ [][NextSolve]_vars

\* the ways of choosing one fact per premise that fit the premises
Fitting(ps, F) == {q \in [1..Len(ps) -> F] : JointMatch(ps, q)}

\* C19: in both KBs, with the fact set unchanged during the search, when
\* the generator of _satisfying_substitutions is exhausted it has yielded
\* one substitution for each way of choosing facts f1..fn that the premises
\* p1..pn match under one assignment, and no other: as many values as there
\* are such choices, each the assignment of its choice, each turning every
\* premise into a member of the fact set.
C19_SolverSoundComplete ==
    GenDone =>
        LET ps == gen.premises
        IN  /\ Len(gen.out) = Cardinality(Fitting(ps, facts))
            /\ {gen.out[i].path : i \in 1..Len(gen.out)} = Fitting(ps, facts)
            /\ \A i \in 1..Len(gen.out) :
                 /\ gen.heap[gen.out[i].id] = JointBinding(ps, gen.out[i].path)
                 /\ \A k \in 1..Len(ps) :
                      substitute(ps[k], gen.heap[gen.out[i].id]) \in facts

\* the chain premises have been solved in src/stage4_predicate on the four
\* facts: one solution, alice - bob - carol
C19_Witness ==
    /\ impl = "orig" /\ GenDone /\ facts = SolveFacts
    /\ gen.premises = <<P2("parent", "?x", "?y"), P2("parent", "?y", "?z")>>
    /\ Len(gen.out) = 1
    /\ gen.heap[gen.out[1].id] =
         ("?x" :> Str("alice") @@ "?y" :> Str("bob") @@ "?z" :> Str("carol"))

\* C20: in both KBs, at every point of the search the partial substitution
\* of each suspended frame and each value yielded so far holds the bindings
\* of its own chain of facts and nothing else (nothing from a fact that
\* failed to unify, nothing from a sibling branch), and no step of the
\* search changes a value that was yielded.
C20_BranchIsolation ==
    /\ [](gen.on =>
            /\ \A i \in 1..Len(gen.stack) :
                 gen.heap[gen.stack[i].cur] =
                    JointBinding(SubSeq(gen.premises, 1, gen.stack[i].idx),
                                 gen.stack[i].path)
            /\ \A i \in 1..Len(gen.out) :
                 gen.heap[gen.out[i].id] =
                    JointBinding(gen.premises, gen.out[i].path))
    /\ [][gen.on =>
            \A i \in 1..Len(gen.out) :
               /\ gen'.out[i] = gen.out[i]
               /\ gen'.heap[gen.out[i].id] = gen.heap[gen.out[i].id]]_vars

\* parent(?x, carol) has been solved in src/stage4_predicate: the dict in
\* which the try of parent(alice,bob) bound ?x to alice before it failed is
\* there, and the one value yielded binds ?x to bob
C20_Witness ==
    /\ impl = "orig" /\ GenDone
    /\ gen.premises = <<P2("parent", "?x", "carol")>>
    /\ \E i \in 1..Len(gen.heap) : gen.heap[i] = ("?x" :> Str("alice"))
    /\ Len(gen.out) = 1
    /\ gen.heap[gen.out[1].id] = ("?x" :> Str("bob"))

---------------------------------------------------------------------------
(* Direct calls of unify(ux, uy, usubs) and substitute(ux, usubs) with a    *)
(* dict that already holds bindings.  usubs keeps the content the dict had  *)
(* when the call was made.  The dicts are the ones unify builds: keys are   *)
(* variables and no key leads back to itself through the bindings.          *)

RECURSIVE VarsOf(_)
\* the variables that occur in a term
VarsOf(term) ==
    IF IsStr(term) THEN (IF is_variable(term) THEN {term.s} ELSE {})
    ELSE IF IsTuple(term)
    THEN UNION {VarsOf(term.t[i]) : i \in 1..Len(term.t)}
    ELSE {}

RECURSIVE ReachedVars(_, _, _)
\* V and the variables reached from V by following n bindings of s or fewer
ReachedVars(V, s, n) ==
    IF n = 0 THEN V
    ELSE ReachedVars(V \cup UNION {VarsOf(s[v]) : v \in V \cap DOMAIN s},
                     s, n - 1)

\* no variable maps, directly or through a chain of bindings, to a term
\* that contains it
Acyclic(s) ==
    \A v \in DOMAIN s :
        v \notin ReachedVars(VarsOf(s[v]), s, Cardinality(DOMAIN s))

SubsTerms == UNION {TermsOfSize(n) : n \in 1..(MaxSize - 1)}

SubsValues == TermsOfSize(1) \cup {Tup(<<Str("?y")>>)}

SubsInputs ==
    {s \in UNION {[D -> SubsValues] : D \in SUBSET {"?x", "?y"}} : Acyclic(s)}

InitSubs ==
    /\ impl \in {"orig", "quiz"}
    /\ ux \in SubsTerms /\ uy \in SubsTerms
    /\ usubs \in SubsInputs
    /\ ures = None /\ gen = GenIdle
    /\ facts = {} /\ rules = <<>> /\ exist_counter = 0
    /\ pc = "idle" /\ fc = FcIdle /\ ret = NoCall /\ ncalls = 0

\* unify(ux, uy, subs) with subs a dict whose content is usubs
UnifySubsCall ==
    /\ ncalls = 0
    /\ ncalls' = 1
    /\ ures' = unify(ux, uy, usubs)
    /\ UNCHANGED <<impl, facts, rules, exist_counter, pc, fc, ret, ux, uy, gen,
                   usubs>>

\* substitute(ux, subs) with subs a dict whose content is usubs
SubstituteCall ==
    /\ ncalls = 0
    /\ ncalls' = 1
    /\ ures' = [val |-> substitute(ux, usubs)]
    /\ UNCHANGED <<impl, facts, rules, exist_counter, pc, fc, ret, ux, uy, gen,
                   usubs>>

NextSubs == UnifySubsCall \/ SubstituteCall

SpecSubs == InitSubs /\ [][NextSubs]_vars

UnifySubsReturned == DOMAIN ures = {"ok", "s"}

SubstituteReturned == DOMAIN ures = {"val"}

\* C21: for both modules, when unify(a, b, subs) returns None the dict
\* that was passed in holds exactly the bindings it held when the call
\* was made.
C21_FailureLeavesSubs ==
    (UnifySubsReturned /\ ~ures.ok) => ures.s = usubs

\* C22: for both modules, when unify(a, b, subs) succeeds with s, every
\* variable bound in subs is bound in s to the same term: a binding once
\* made is never replaced.
C22_SingleBinding ==
    (UnifySubsReturned /\ ures.ok) =>
        \A v \in DOMAIN usubs : v \in DOMAIN ures.s /\ ures.s[v] = usubs[v]

\* unify of src/stage4_predicate, given a dict that binds ?x and two terms
\* of which one is ?x, has succeeded and added a binding
C22_Witness ==
    /\ impl = "orig" /\ UnifySubsReturned /\ ures.ok
    /\ "?x" \in DOMAIN usubs /\ Str("?x") \in {ux, uy}
    /\ DOMAIN ures.s # DOMAIN usubs

\* C24: for substitute of both modules and a dict whose keys are variables,
\* the str at position 0 of a tuple is returned unchanged, whatever str
\* it is.
C24_TagUnchanged ==
    (SubstituteReturned /\ IsTuple(ux) /\ IsStr(ux.t[1]))
        => ures.val.t[1] = ux.t[1]

\* C23: for both modules, every substitution returned by unify(a, b, {})
\* is acyclic: no variable maps, directly or through a chain of bindings of
\* any length, to a term that contains that variable.
C23_Acyclic == (UnifyReturned /\ ures.ok) => Acyclic(ures.s)

\* unify(a, b) has returned a substitution with a chain of two bindings:
\* one variable is bound to a second variable and the second to a tuple
C23_Witness ==
    /\ UnifyReturned /\ ures.ok
    /\ \E v, w \in DOMAIN ures.s :
          v # w /\ ures.s[v] = Str(w) /\ IsTuple(ures.s[w])

\* C25: for both modules and two distinct variables X and Y, unify(X, Y, {})
\* returns exactly {X: Y}, binding the left operand, and a second call of
\* unify on the same inputs returns an equal substitution.
C25_BindsLeft ==
    /\ []((UnifyReturned /\ is_variable(ux) /\ is_variable(uy) /\ ux # uy)
             => (ures.ok /\ ures.s = (ux.s :> uy)))
    /\ [][UnifyReturned => ures' = ures]_vars

\* unify("?x", "?y") of src/reasoner_quiz has returned {"?x": "?y"}
C25_Witness ==
    /\ impl = "quiz" /\ UnifyReturned
    /\ ux = Str("?x") /\ uy = Str("?y")
    /\ ures.ok /\ ures.s = ("?x" :> Str("?y"))

---------------------------------------------------------------------------
(* The three forms of premises.  KB([parent(alice,bob), parent(bob,carol)]) *)
(* receives the first ancestor rule, whose premise is one predicate, and    *)
(* the second ancestor rule with its premises as an AND chain or as a list. *)

\* FORALL x,y,z: [parent(x,y), ancestor(y,z)] -> ancestor(x,z)
RuleAnc2List ==
    Forall(<<"?x", "?y", "?z">>,
           Lst(<<P2("parent", "?x", "?y"), P2("ancestor", "?y", "?z")>>),
           P2("ancestor", "?x", "?z"))

FormRules == {RuleAnc1, RuleAnc2, RuleAnc2List}

InitForms == InitKB(AncFacts, <<>>)

NextForms ==
    \/ \E rule \in FormRules : AddRule(rule)
    \/ ForwardChain(DefaultMaxIterations)
    \/ FcStep

SpecForms == InitForms /\ [][NextForms]_vars

\* the Rule with the premise sequence (p)
NormAnc1 ==
    Rule(<<Str("?x"), Str("?y")>>, <<P2("parent", "?x", "?y")>>,
         P2("ancestor", "?x", "?y"))

\* the Rule with the flat premise sequence (p, q)
NormAnc2 ==
    Rule(<<Str("?x"), Str("?y"), Str("?z")>>,
         <<P2("parent", "?x", "?y"), P2("ancestor", "?y", "?z")>>,
         P2("ancestor", "?x", "?z"))

\* C26: in both KBs, add_rule of a rule whose premises are one predicate p
\* stores the premise sequence (p); premises given as the list [p, q] and
\* as the chain ("AND", p, q) store the same sequence (p, q); and when
\* forward_chain returns normally the facts are the closure under the
\* stored rules, whichever form each rule was given in.
C26_PremiseForms ==
    /\ \A i \in 1..Len(rules) : rules[i] \in {NormAnc1, NormAnc2}
    /\ ret.op = "add_rule" =>
          /\ ret.exc = ""
          /\ rules[Len(rules)] = (IF ret.arg = RuleAnc1 THEN NormAnc1 ELSE NormAnc2)
    /\ (pc = "idle" /\ ret.op = "forward_chain" /\ ret.exc = "")
          => facts = Closure({NormAnc1, NormAnc2} \cap Range(rules),
                             Range(AncFacts))

\* src/stage4_predicate has just stored the list form of the second
\* ancestor rule, after an earlier add_rule stored the AND form
C26_Witness ==
    /\ impl = "orig" /\ pc = "idle"
    /\ ret.op = "add_rule" /\ ret.arg = RuleAnc2List
    /\ fc.calls = 0 /\ Len(rules) = 3
    /\ rules = <<NormAnc2, NormAnc1, NormAnc2>>

---------------------------------------------------------------------------
(* Minting Skolem constants:                                                *)
(*   KB([person(adam)], [FORALL x: person(x) -> EXISTS z,y: couple(z,y,x),  *)
(*                       FORALL x: person(x) -> EXISTS z: parent(z,x)])     *)
(* The caller may add person(eve) between calls of forward_chain.           *)

RulePair ==
    Forall(<<"?x">>, P1("person", "?x"),
           Exists(<<"?z", "?y">>,
                  Tup(<<Str("couple"), Str("?z"), Str("?y"), Str("?x")>>)))

MintFacts == <<P1("person", "adam")>>

MintRules == <<RulePair, RuleSk1>>

InitMint == InitKB(MintFacts, MintRules)

NextMint ==
    \/ ForwardChain(DefaultMaxIterations)
    \/ AddFact(P1("person", "eve"))
    \/ FcStep

SpecMint == InitMint /\ [][NextMint]_vars

\* the elements of the tuples in F
ArgsOf(F) == UNION {{f.t[k] : k \in 1..Len(f.t)} : f \in {g \in F : IsTuple(g)}}

\* the constants _sk0 .. _skn that occur in the facts F
SkolemsIn(F, n) ==
    {c \in ArgsOf(F) : IsStr(c) /\ \E i \in 0..n : c.s = SkolemName(i)}

\* C27: in both KBs the counter _exist_counter is 0 in a KB just made and
\* never decreases; a step that instantiates an EXISTS conclusion advances
\* it by exactly the number of constants the step mints, one for each
\* existential variable; and every constant minted is different from all
\* constants the KB minted before, in the same call of forward_chain or in
\* an earlier one.
C27_SkolemCounter ==
    /\ [](ncalls = 0 => exist_counter = 0)
    /\ [][/\ exist_counter' >= exist_counter
          /\ LET n == exist_counter' + 1
                 minted == SkolemsIn(facts' \ facts, n)
             IN  /\ minted \cap SkolemsIn(facts, n) = {}
                 /\ Cardinality(minted) = exist_counter' - exist_counter]_vars

\* the second forward_chain of src/reasoner_quiz has returned, after
\* person(eve) was added: three constants minted in each call
C27_Witness ==
    /\ impl = "quiz" /\ pc = "idle" /\ ret.op = "forward_chain"
    /\ fc.calls = 2 /\ exist_counter = 6
    /\ Cardinality(SkolemsIn(facts, exist_counter)) = 6

---------------------------------------------------------------------------
(* A conclusion with a variable that no premise binds:                      *)
(*   KB([p(a), p(b)], [FORALL x: p(x) -> q(x, ?y), FORALL x: p(x) -> r(x)]) *)
(* The caller may add p(c) between calls of forward_chain.                  *)

RuleUnbound == Forall(<<"?x">>, P1("p", "?x"), P2("q", "?x", "?y"))

UnboundFacts == <<P1("p", "a"), P1("p", "b")>>

UnboundRules == <<RuleUnbound, Forall(<<"?x">>, P1("p", "?x"), P1("r", "?x"))>>

InitUnbound == InitKB(UnboundFacts, UnboundRules)

NextUnbound ==
    \/ \E n \in 0..MaxIter : ForwardChain(n)
    \/ AddFact(P1("p", "c"))
    \/ FcStep

SpecUnbound == InitUnbound /\ [][NextUnbound]_vars

\* C28: in the KB of src/reasoner_quiz, forward_chain adds only ground
\* facts: with the rule FORALL x: p(x) -> q(x, ?y), whose conclusion holds a
\* variable that no premise binds, no fact that contains a variable is ever
\* in the fact set.
C28_ForwardChainGround ==
    impl = "quiz" => \A f \in facts : DeepGround(f)

---------------------------------------------------------------------------
(* Fixpoints.  A KB whose first rule uses what the second one derives, so  *)
(* that one pass does not close the fact set, and an existential rule:      *)
(*   KB([parent(alice,bob)],                                                *)
(*      [FORALL x,y: ancestor(x,y) -> related(x,y),                         *)
(*       FORALL x,y: parent(x,y) -> ancestor(x,y),                          *)
(*       FORALL x,y: parent(y,x) -> EXISTS z: mother(z,x)])                 *)
(* forward_chain is called with a budget of 0..MaxIter passes; the caller   *)
(* may add parent(bob,carol) between calls.                                 *)

RuleRelated ==
    Forall(<<"?x", "?y">>, P2("ancestor", "?x", "?y"), P2("related", "?x", "?y"))

FixFacts == <<P2("parent", "alice", "bob")>>

FixRules == <<RuleRelated, RuleAnc1, RuleMother>>

InitFix == InitKB(FixFacts, FixRules)

NextFix ==
    \/ \E n \in 0..MaxIter : ForwardChain(n)
    \/ AddFact(P2("parent", "bob", "carol"))
    \/ FcStep

SpecFix == InitFix /\ [][NextFix]_vars

\* forward_chain of src/reasoner_quiz has returned because a pass added
\* nothing
FixpointReturn ==
    /\ impl = "quiz" /\ pc = "idle"
    /\ ret.op = "forward_chain" /\ ret.exc = ""
    /\ fc.max > 0 /\ ~fc.added

\* F is closed under the rules RS: for each substitution that satisfies all
\* premises of a rule against F, the substituted conclusion is in F, or,
\* for an EXISTS conclusion, some fact of F is an instance of the
\* substituted body
ClosedUnder(RS, F) ==
    \A r \in {q \in RS : IsRule(q)} :
        \A fs \in {q \in [1..Len(r.premises) -> F] : JointMatch(r.premises, q)} :
            LET b == JointBinding(r.premises, fs)
            IN  IF is_exists(r.conclusion)
                THEN \E f \in F : PatMatches(substitute(r.conclusion.t[3], b), f)
                ELSE substitute(r.conclusion, b) \in F

\* C29: in the KB of src/reasoner_quiz, whenever forward_chain returns
\* because a pass added nothing, and not because the budget ran out, the
\* fact set is closed under every rule of the rule list.
C29_FixpointClosed == FixpointReturn => ClosedUnder(Range(rules), facts)

\* forward_chain(3) has returned after a third pass that added nothing:
\* related(alice,bob), derived in the second pass, and the mother of bob are
\* there
C29_Witness ==
    /\ FixpointReturn /\ fc.it = 3 /\ fc.calls = 1
    /\ P2("related", "alice", "bob") \in facts
    /\ exist_counter = 1

\* C30: in the KB of src/reasoner_quiz, a forward_chain that returned
\* because a pass added nothing left a closed fact set, and no step of a
\* forward_chain call (whatever its max_iterations) changes the fact set,
\* the rule list or the Skolem counter unless the fact set it runs on is
\* not closed: the call that follows a fixpoint immediately leaves all
\* three unchanged, also with the existential rule.
C30_Idempotent ==
    /\ [](FixpointReturn => ClosedUnder(Range(rules), facts))
    /\ [][(/\ impl = "quiz"
           /\ (pc = "fc" \/ pc' = "fc")
           /\ <<facts', rules', exist_counter'>> # <<facts, rules, exist_counter>>)
            => ~ClosedUnder(Range(rules), facts)]_vars

\* the second of two forward_chain calls in a row has returned, the first
\* one having reached the fixpoint
C30_Witness ==
    /\ impl = "quiz" /\ pc = "idle" /\ ret.op = "forward_chain"
    /\ ncalls = 2 /\ fc.calls = 2 /\ fc.max > 0
    /\ exist_counter = 1
    /\ facts = {P2("parent", "alice", "bob"), P2("ancestor", "alice", "bob"),
                P2("related", "alice", "bob"),
                P2("mother", SkolemName(0), "bob")}

---------------------------------------------------------------------------
(* Frame conditions of the KB used through its methods *)

\* the variables of the terms of the sequence q
VarsOfAll(q) == UNION {VarsOf(q[i]) : i \in 1..Len(q)}

\* C31: in both KBs, query leaves the fact set, the rule list and the
\* Skolem counter unchanged; no step of forward_chain changes the rule
\* list; add_fact changes neither the rule list nor the counter; and each
\* rule application and each query starts from the empty substitution: the
\* outermost frame of the search holds no binding, and a deeper frame or an
\* answer binds only variables of the rule's own premises, of the pattern
\* or of the facts they were matched with.
C31_FrameConditions ==
    /\ [][(ncalls' # ncalls /\ ret'.op = "query")
            => UNCHANGED <<facts, rules, exist_counter>>]_vars
    /\ [][(pc = "fc" \/ pc' = "fc") => rules' = rules]_vars
    /\ [][(ncalls' # ncalls /\ ret'.op = "add_fact")
            => UNCHANGED <<rules, exist_counter>>]_vars
    /\ []((pc = "fc" /\ fc.stack # <<>>) =>
            /\ fc.stack[1].cur = EmptySubs
            /\ \A k \in 1..Len(fc.stack) :
                 DOMAIN fc.stack[k].cur \subseteq
                    VarsOfAll(rules[fc.ri].premises) \cup VarsOfAll(SetToSeq(facts)))
    /\ []((pc = "idle" /\ ret.op = "query") =>
            \A i \in 1..Len(ret.val.l) :
               DOMAIN ret.val.l[i].d \subseteq
                  VarsOf(ret.arg) \cup VarsOfAll(SetToSeq(facts)))

\* query has returned an answer on a KB that holds a rule and has minted a
\* Skolem constant in an earlier forward_chain
C31_Witness ==
    /\ pc = "idle" /\ ret.op = "query" /\ Len(ret.val.l) > 0
    /\ Len(rules) > 0 /\ exist_counter > 0 /\ fc.calls > 0

---------------------------------------------------------------------------
(* Skolem constants and the caller's constants:                             *)
(*   KB([parent(ann,bob), parent(ann,carol)],                               *)
(*      [FORALL x,y: parent(y,x) -> EXISTS z: mother(z,x)])                 *)
(* The caller may add friend(_sk0,_sk1), a ground fact whose constants are  *)
(* spelled like the ones the KB mints.                                      *)

FreshFacts == <<P2("parent", "ann", "bob"), P2("parent", "ann", "carol")>>

UserFact == P2("friend", SkolemName(0), SkolemName(1))

InitFresh == InitKB(FreshFacts, <<RuleMother>>)

NextFresh ==
    \/ ForwardChain(DefaultMaxIterations)
    \/ AddFact(UserFact)
    \/ FcStep

SpecFresh == InitFresh /\ [][NextFresh]_vars

\* C32: in both KBs, a constant minted by _instantiate_exists is different
\* from every constant that occurs in a fact of the KB when it is minted,
\* the facts that the caller added with add_fact included.
C32_FreshAgainstUserData ==
    [][exist_counter' > exist_counter =>
         SkolemsIn(facts' \ facts, exist_counter' + 1) \cap ArgsOf(facts) = {}]_vars

\* C36: the two unify functions are equivalent: for all terms a and b,
\* unify(a, b, {}) of one module returns None exactly when unify(a, b, {})
\* of the other module does, and when they succeed they return equal
\* substitutions.
C36_UnifiersEquivalent ==
    UnifyReturned =>
        LET other == IF impl = "orig" THEN quiz_unify(ux, uy, EmptySubs)
                     ELSE orig_unify(ux, uy, EmptySubs)
        IN  /\ ures.ok = other.ok
            /\ ures.ok => ures.s = other.s

---------------------------------------------------------------------------
(* The propositional KBs: src/stage1_kb/kb.py ("stage1"),                   *)
(* src/stage2_fc_mp/reasoner.py ("stage2"), src/stage3_all9/reasoner.py     *)
(* ("stage3") and src/reasoner_quiz/stage2_fc_mp/reasoner.py ("quiz2").     *)
(* An atom is a str, NOT(atom) the tuple ("NOT", atom); impl names the      *)
(* module, facts is KB.facts and rules is KB.rules.                         *)

is_atom(value) == IsStr(value)

is_not(value) ==
    /\ IsTuple(value) /\ Len(value.t) = 2
    /\ value.t[1] = Str("NOT") /\ IsStr(value.t[2])

is_lit(value) == is_atom(value) \/ is_not(value)

is_and(value) == IsTuple(value) /\ Len(value.t) = 3 /\ value.t[1] = Str("AND")

is_or(value) == IsTuple(value) /\ Len(value.t) = 3 /\ value.t[1] = Str("OR")

is_implies(value) ==
    IsTuple(value) /\ Len(value.t) = 3 /\ value.t[1] = Str("IMPLIES")

negate(literal) ==
    IF is_not(literal) THEN literal.t[2] ELSE Tup(<<Str("NOT"), literal>>)

Contradiction == "ValueError: Contradiction detected"

\* add_fact of each module: [exc, facts, val]
stage1_add_fact(F, fact) ==
    IF ~is_lit(fact) THEN [exc |-> "ValueError", facts |-> F, val |-> FALSE]
    ELSE IF fact \in F THEN [exc |-> "", facts |-> F, val |-> FALSE]
    ELSE IF negate(fact) \in F
    THEN [exc |-> Contradiction, facts |-> F, val |-> FALSE]
    ELSE [exc |-> "", facts |-> F \cup {fact}, val |-> TRUE]

\* Mutant of add_fact: the fact is added before the contradiction is seen.
stage2_add_fact_late(F, fact) ==
    IF ~is_lit(fact) THEN [exc |-> "ValueError", facts |-> F, val |-> FALSE]
    ELSE IF fact \in F THEN [exc |-> "", facts |-> F, val |-> FALSE]
    ELSE IF negate(fact) \in F
    THEN [exc |-> Contradiction, facts |-> F \cup {fact}, val |-> FALSE]
    ELSE [exc |-> "", facts |-> F \cup {fact}, val |-> TRUE]

stage2_add_fact(F, fact) ==
    IF ~is_lit(fact) THEN [exc |-> "ValueError", facts |-> F, val |-> FALSE]
    ELSE IF fact \in F THEN [exc |-> "", facts |-> F, val |-> FALSE]
    ELSE IF negate(fact) \in F
    THEN [exc |-> Contradiction, facts |-> F, val |-> FALSE]
    ELSE [exc |-> "", facts |-> F \cup {fact}, val |-> TRUE]

stage3_add_fact(F, fact) ==
    IF fact \in F THEN [exc |-> "", facts |-> F, val |-> FALSE]
    ELSE IF is_lit(fact) /\ negate(fact) \in F
    THEN [exc |-> Contradiction, facts |-> F, val |-> FALSE]
    ELSE [exc |-> "", facts |-> F \cup {fact}, val |-> TRUE]

quiz2_add_fact(F, fact) ==
    IF ~is_lit(fact) THEN [exc |-> "", facts |-> F, val |-> FALSE]
    ELSE IF negate(fact) \in F
    THEN [exc |-> Contradiction, facts |-> F, val |-> FALSE]
    ELSE IF fact \in F THEN [exc |-> "", facts |-> F, val |-> FALSE]
    ELSE [exc |-> "", facts |-> F \cup {fact}, val |-> TRUE]

prop_add_fact(F, fact) ==
    IF impl = "stage1" THEN stage1_add_fact(F, fact)
    ELSE IF impl = "stage2" THEN stage2_add_fact(F, fact)
    ELSE IF impl = "stage3" THEN stage3_add_fact(F, fact)
    ELSE quiz2_add_fact(F, fact)

\* KB(facts, rules) raises when a literal of facts has its negation there;
\* the constructor of src/reasoner_quiz/stage2_fc_mp has no such test
prop_init_raises(F) ==
    impl \in {"stage2", "stage3"} /\ \E f \in F : is_lit(f) /\ negate(f) \in F

\* rule_modus_ponens of the two stage-2 modules, over rules[i..]
RECURSIVE stage2_modus_ponens(_, _, _)
stage2_modus_ponens(F, R, i) ==
    IF i > Len(R) THEN <<>>
    ELSE (IF /\ R[i].t[1] = Str("IMPLIES")
             /\ R[i].t[2] \in F /\ R[i].t[3] \notin F
          THEN <<R[i].t[3]>> ELSE <<>>)
         \o stage2_modus_ponens(F, R, i + 1)

\* "for fact in ...: if self.add_fact(fact): added = True", from cands[i]:
\* [exc, facts, added]; an exception of add_fact ends the loop
RECURSIVE stage2_add_all(_, _, _, _)
stage2_add_all(F, cands, i, added) ==
    IF i > Len(cands) THEN [exc |-> "", facts |-> F, added |-> added]
    ELSE Only({IF r.exc # ""
               THEN [exc |-> r.exc, facts |-> r.facts, added |-> added]
               ELSE stage2_add_all(r.facts, cands, i + 1, added \/ r.val) :
               r \in {prop_add_fact(F, cands[i])}})


---------------------------------------------------------------------------
(* The inference functions of src/stage3_all9/reasoner.py.  A function that *)
(* walks self.facts is given the order in which the set yields the facts    *)
(* that propose something; the other facts are skipped in any position.     *)

Implies(p, q) == Tup(<<Str("IMPLIES"), p, q>>)

RECURSIVE stage3_modus_ponens(_, _, _)
stage3_modus_ponens(F, R, i) ==
    IF i > Len(R) THEN <<>>
    ELSE (IF /\ is_implies(R[i])
             /\ R[i].t[2] \in F /\ is_lit(R[i].t[3]) /\ R[i].t[3] \notin F
          THEN <<R[i].t[3]>> ELSE <<>>)
         \o stage3_modus_ponens(F, R, i + 1)

RECURSIVE rule_modus_tollens(_, _, _)
rule_modus_tollens(F, R, i) ==
    IF i > Len(R) THEN <<>>
    ELSE (IF /\ is_implies(R[i])
             /\ is_lit(R[i].t[2]) /\ is_lit(R[i].t[3])
             /\ negate(R[i].t[3]) \in F /\ negate(R[i].t[2]) \notin F
          THEN <<negate(R[i].t[2])>> ELSE <<>>)
         \o rule_modus_tollens(F, R, i + 1)

\* what rule_simplification proposes for the fact ("AND", left, right)
SimplificationOf(F, fact) ==
    (IF is_lit(fact.t[2]) /\ fact.t[2] \notin F THEN <<fact.t[2]>> ELSE <<>>)
    \o (IF is_lit(fact.t[3]) /\ fact.t[3] \notin F THEN <<fact.t[3]>> ELSE <<>>)

RECURSIVE rule_simplification(_, _, _)
rule_simplification(F, order, i) ==
    IF i > Len(order) THEN <<>>
    ELSE SimplificationOf(F, order[i]) \o rule_simplification(F, order, i + 1)

\* literals is the list of the literals of self.facts, in the set's order;
\* a candidate is not a literal, so add_fact never rejects one and the
\* order of the candidates does not matter
rule_conjunction(F, literals) ==
    SetToSeq({Tup(<<Str("AND"), literals[p[1]], literals[p[2]]>>) :
                p \in {p \in (1..Len(literals)) \X (1..Len(literals)) :
                         p[1] < p[2]}}
             \ F)

rule_disjunctive_addition(F) ==
    SetToSeq({Tup(<<Str("OR"), left, right>>) :
                left \in {f \in F : is_lit(f)}, right \in {f \in F : is_lit(f)}}
             \ ({Tup(<<Str("OR"), l, l>>) : l \in F} \cup F))

\* what rule_disjunctive_syllogism proposes for the fact ("OR", left, right)
SyllogismOf(F, fact) ==
    IF is_lit(fact.t[2]) /\ is_lit(fact.t[3])
    THEN (IF negate(fact.t[2]) \in F /\ fact.t[3] \notin F
          THEN <<fact.t[3]>> ELSE <<>>)
         \o (IF negate(fact.t[3]) \in F /\ fact.t[2] \notin F
             THEN <<fact.t[2]>> ELSE <<>>)
    ELSE <<>>

RECURSIVE rule_disjunctive_syllogism(_, _, _)
rule_disjunctive_syllogism(F, order, i) ==
    IF i > Len(order) THEN <<>>
    ELSE SyllogismOf(F, order[i])
         \o rule_disjunctive_syllogism(F, order, i + 1)

\* the implications of the rule list, in its order
RECURSIVE Implications(_, _)
Implications(R, i) ==
    IF i > Len(R) THEN <<>>
    ELSE (IF is_implies(R[i]) THEN <<R[i]>> ELSE <<>>) \o Implications(R, i + 1)

\* the two loops of rule_hypothetical_syllogism over the pairs
\* (index, j) of positions of imps, pair number k onwards
RECURSIVE hypothetical_loop(_, _, _, _)
hypothetical_loop(R, imps, k, out) ==
    IF k >= Len(imps) * Len(imps) THEN out
    ELSE LET index == (k \div Len(imps)) + 1
             j == (k % Len(imps)) + 1
             candidate == Implies(imps[index].t[2], imps[j].t[3])
         IN  hypothetical_loop(R, imps, k + 1,
                 IF /\ index # j
                    /\ imps[index].t[3] = imps[j].t[2]
                    /\ candidate \notin Range(R) /\ candidate \notin Range(out)
                 THEN Append(out, candidate) ELSE out)

rule_hypothetical_syllogism(R) ==
    hypothetical_loop(R, Implications(R, 1), 0, <<>>)

\* the candidates are disjunctions, which add_fact never rejects
rule_constructive_dilemma(F, R) ==
    SetToSeq({Tup(<<Str("OR"), p[1].t[3], p[2].t[3]>>) :
                p \in {p \in {r \in Range(R) : is_implies(r)}
                               \X {r \in Range(R) : is_implies(r)} :
                         \E d \in {f \in F : is_or(f)} :
                            \/ d.t[2] = p[1].t[2] /\ d.t[3] = p[2].t[2]
                            \/ d.t[2] = p[2].t[2] /\ d.t[3] = p[1].t[2]}}
             \ F)

rule_destructive_dilemma(F, R) ==
    SetToSeq({Tup(<<Str("OR"), negate(p[1].t[2]), negate(p[2].t[2])>>) :
                p \in {p \in {r \in Range(R) : is_implies(r)}
                               \X {r \in Range(R) : is_implies(r)} :
                         /\ p[1].t[3] # p[2].t[3]
                         /\ \E d \in {f \in F : is_or(f)} :
                              /\ is_not(d.t[2]) /\ is_not(d.t[3])
                              /\ p[1].t[3] \in {d.t[2].t[2], d.t[3].t[2]}
                              /\ p[2].t[3] \in {d.t[2].t[2], d.t[3].t[2]}}}
             \ F)

\* Mutant of the add loop: a rejected fact ends the loop over the list.
RECURSIVE stage3_add_all_abort(_, _, _)
stage3_add_all_abort(o, cands, i) ==
    IF i > Len(cands) THEN o
    ELSE Only({IF r.exc # ""
               THEN [facts |-> o.facts, changed |-> o.changed,
                     rejected |-> o.rejected \cup {cands[i]},
                     proposed |-> o.proposed \cup Range(cands)]
               ELSE stage3_add_all_abort(
                        [facts |-> r.facts, changed |-> o.changed \/ r.val,
                         rejected |-> o.rejected,
                         proposed |-> o.proposed \cup {cands[i]}],
                        cands, i + 1) :
               r \in {stage3_add_fact(o.facts, cands[i])}})

\* "for fact in infer(): try: if self.add_fact(fact): changed = True
\*  except ValueError: pass", from cands[i].  o holds the fact set, changed,
\* and the facts that were proposed and that were rejected in this round.
RECURSIVE stage3_add_all(_, _, _)
stage3_add_all(o, cands, i) ==
    IF i > Len(cands) THEN o
    ELSE Only({stage3_add_all(
                   [facts |-> r.facts,
                    changed |-> o.changed \/ (r.exc = "" /\ r.val),
                    rejected |-> IF r.exc # "" THEN o.rejected \cup {cands[i]}
                                 ELSE o.rejected,
                    proposed |-> o.proposed \cup {cands[i]}],
                   cands, i + 1) :
               r \in {stage3_add_fact(o.facts, cands[i])}})

\* inference_functions of forward_chain, in the order of the list
inference_functions ==
    <<"rule_modus_ponens", "rule_modus_tollens", "rule_simplification",
      "rule_conjunction", "rule_disjunctive_addition",
      "rule_disjunctive_syllogism", "rule_constructive_dilemma",
      "rule_destructive_dilemma">>

\* the lists that infer() can return when the fact set is F
infer(name, F, R) ==
    CASE name = "rule_modus_ponens" -> {stage3_modus_ponens(F, R, 1)}
      [] name = "rule_modus_tollens" -> {rule_modus_tollens(F, R, 1)}
      [] name = "rule_simplification" ->
           {rule_simplification(F, order, 1) :
              order \in Orders({f \in F : /\ is_and(f)
                                          /\ SimplificationOf(F, f) # <<>>})}
      [] name = "rule_conjunction" ->
           {rule_conjunction(F, literals) :
              literals \in Orders({f \in F : is_lit(f)})}
      [] name = "rule_disjunctive_addition" -> {rule_disjunctive_addition(F)}
      [] name = "rule_disjunctive_syllogism" ->
           {rule_disjunctive_syllogism(F, order, 1) :
              order \in Orders({f \in F : /\ is_or(f)
                                          /\ SyllogismOf(F, f) # <<>>})}
      [] name = "rule_constructive_dilemma" -> {rule_constructive_dilemma(F, R)}
      [] name = "rule_destructive_dilemma" -> {rule_destructive_dilemma(F, R)}

\* "for infer in inference_functions: for fact in infer(): ..." from the
\* k-th function on: infer() is called when its turn comes
RECURSIVE stage3_infer(_, _, _)
stage3_infer(S, R, k) ==
    IF k > Len(inference_functions) THEN S
    ELSE stage3_infer(
             UNION {{stage3_add_all(o, cands, 1) :
                       cands \in infer(inference_functions[k], o.facts, R)} :
                    o \in S},
             R, k + 1)

---------------------------------------------------------------------------
(* The calls on a propositional KB.  fc holds the locals of forward_chain:  *)
(* max is max_steps, it the number of rounds finished; start and rstart are *)
(* the facts and rules as the last round found them, proposed and rejected  *)
(* the facts that round offered to add_fact and those add_fact raised for;  *)
(* broke tells that the call left its loop by "break".                      *)

PropIdle == [calls |-> 0, max |-> 0, it |-> 0, start |-> {}, rstart |-> <<>>,
             proposed |-> {}, rejected |-> {}, broke |-> FALSE]

PropAddFact(fact) ==
    /\ Call
    /\ \E r \in {prop_add_fact(facts, fact)} :
         /\ facts' = r.facts
         /\ ret' = Returned("add_fact", fact, r.exc,
                            IF r.exc = "" THEN Bool(r.val) ELSE None)
    /\ UNCHANGED <<impl, rules, exist_counter, pc, fc, ux, uy, ures, gen, usubs>>

\* forward_chain(max_steps=n) is called; stage1 has no forward_chain
PropForwardChain(n) ==
    /\ Call
    /\ impl # "stage1"
    /\ pc' = "pfc"
    /\ fc' = [calls |-> fc.calls + 1, max |-> n, it |-> 0, start |-> facts,
              rstart |-> rules, proposed |-> {}, rejected |-> {},
              broke |-> FALSE]
    /\ ret' = NoCall
    /\ UNCHANGED <<impl, facts, rules, exist_counter, ux, uy, ures, gen, usubs>>

\* what forward_chain of src/reasoner_quiz/stage2_fc_mp returns: self.facts
PropValue(F) == IF impl = "quiz2" THEN [set |-> F] ELSE None

\* one round of forward_chain of the two stage-2 modules
PropRound2 ==
    /\ pc = "pfc" /\ impl \in {"stage2", "quiz2"}
    /\ fc.it < fc.max
    /\ \E cands \in {stage2_modus_ponens(facts, rules, 1)} :
       \E r \in {stage2_add_all(facts, cands, 1, FALSE)} :
         /\ facts' = r.facts
         /\ IF r.exc # ""
            THEN /\ pc' = "idle"
                 /\ ret' = Returned("forward_chain", PyInt(fc.max), r.exc, None)
                 /\ fc' = [fc EXCEPT !.start = facts, !.proposed = Range(cands)]
            ELSE IF ~r.added
            THEN /\ pc' = "idle"
                 /\ ret' = Returned("forward_chain", PyInt(fc.max), "",
                                    PropValue(r.facts))
                 /\ fc' = [fc EXCEPT !.start = facts, !.broke = TRUE,
                                     !.proposed = Range(cands)]
            ELSE /\ pc' = "pfc"
                 /\ ret' = ret
                 /\ fc' = [fc EXCEPT !.start = facts, !.it = fc.it + 1,
                                     !.proposed = Range(cands)]
    /\ UNCHANGED <<impl, rules, exist_counter, ncalls, ux, uy, ures, gen, usubs>>

\* one round of forward_chain of src/stage3_all9
PropRound3 ==
    /\ pc = "pfc" /\ impl = "stage3"
    /\ fc.it < fc.max
    /\ \E new \in {rule_hypothetical_syllogism(rules)} :
       \E o \in stage3_infer({[facts |-> facts, changed |-> new # <<>>,
                               rejected |-> {}, proposed |-> {}]},
                             rules \o new, 1) :
         /\ facts' = o.facts
         /\ rules' = rules \o new
         /\ IF o.changed
            THEN /\ pc' = "pfc"
                 /\ ret' = ret
                 /\ fc' = [fc EXCEPT !.start = facts, !.rstart = rules,
                                     !.it = fc.it + 1,
                                     !.proposed = o.proposed,
                                     !.rejected = o.rejected]
            ELSE /\ pc' = "idle"
                 /\ ret' = Returned("forward_chain", PyInt(fc.max), "", None)
                 /\ fc' = [fc EXCEPT !.start = facts, !.rstart = rules,
                                     !.broke = TRUE,
                                     !.proposed = o.proposed,
                                     !.rejected = o.rejected]
    /\ UNCHANGED <<impl, exist_counter, ncalls, ux, uy, ures, gen, usubs>>

\* the loop has run max_steps rounds
PropExhausted ==
    /\ pc = "pfc"
    /\ fc.it >= fc.max
    /\ pc' = "idle"
    /\ ret' = Returned("forward_chain", PyInt(fc.max), "", PropValue(facts))
    /\ UNCHANGED <<impl, facts, rules, exist_counter, fc, ncalls,
                   ux, uy, ures, gen, usubs>>

---------------------------------------------------------------------------
(* The propositional knowledge bases that are constructed, and the facts    *)
(* the caller adds.  KB() of stage1 takes no argument.                      *)

Not(p) == Tup(<<Str("NOT"), Str(p)>>)

PropKBs ==
    { [facts |-> {}, rules |-> <<>>],
      [facts |-> {Str("a")},
       rules |-> <<Implies(Str("a"), Str("b")), Implies(Str("b"), Str("c"))>>],
      [facts |-> {Str("a")},
       rules |-> <<Implies(Str("a"), Str("b")), Implies(Str("a"), Not("b"))>>],
      [facts |-> {Str("a")},
       rules |-> <<Implies(Str("a"), Tup(<<Str("AND"), Str("b"), Str("c")>>))>>],
      [facts |-> {Str("a"), Not("a")}, rules |-> <<>>],
      [facts |-> {Tup(<<Str("OR"), Str("a"), Str("b")>>), Not("a")},
       rules |-> <<Implies(Str("b"), Str("c")), Implies(Str("c"), Str("a"))>>] }

PropFacts ==
    {Str("a"), Not("a"), Tup(<<Str("AND"), Str("a"), Str("b")>>)}

InitProp ==
    /\ impl \in {"stage1", "stage2", "stage3", "quiz2"}
    /\ \E kb \in PropKBs :
         /\ impl = "stage1" => kb.facts = {} /\ kb.rules = <<>>
         /\ ~prop_init_raises(kb.facts)
         /\ facts = kb.facts
         /\ rules = kb.rules
    /\ exist_counter = 0
    /\ pc = "idle" /\ fc = PropIdle /\ ret = NoCall /\ ncalls = 0
    /\ ux = None /\ uy = None /\ ures = None
    /\ gen = GenIdle /\ usubs = EmptySubs

NextProp ==
    \/ \E fact \in PropFacts : PropAddFact(fact)
    \/ \E n \in 0..MaxIter : PropForwardChain(n)
    \/ PropRound2
    \/ PropRound3
    \/ PropExhausted

SpecProp == InitProp /\ [][NextProp]_vars

---------------------------------------------------------------------------
(* Properties of the propositional KBs *)

\* no literal of F has its negation in F
PropConsistent(F) == \A f \in F : is_lit(f) => negate(f) \notin F

\* the rules ("IMPLIES", p, q) of R with p in F have q in F
ModusPonensClosed(R, F) ==
    \A r \in Range(R) : is_implies(r) /\ r.t[2] \in F => r.t[3] \in F

\* C33: in stage1, stage2 and stage3 the fact set of a constructed KB never
\* holds a literal together with its negation, whatever add_fact and
\* forward_chain calls were made and whether or not they raised, and an
\* add_fact call that raises leaves the fact set as it was.
C33_Consistency ==
    /\ [](impl \in {"stage1", "stage2", "stage3"} => PropConsistent(facts))
    /\ [][(/\ impl \in {"stage1", "stage2", "stage3"}
           /\ ncalls' # ncalls
           /\ ret'.op = "add_fact" /\ ret'.exc # "")
          => facts' = facts]_vars

\* stage2: after forward_chain has derived facts, add_fact raised
\* "Contradiction detected"
C33_Witness ==
    /\ impl = "stage2" /\ fc.calls > 0 /\ facts # fc.start
    /\ ret.op = "add_fact" /\ ret.exc = Contradiction

\* C34: when forward_chain of a stage-2 module returns normally by leaving
\* its loop before max_steps rounds are used up, every rule ("IMPLIES", p, q)
\* with p in the fact set has q in the fact set; and a round adds only
\* consequents of rules whose antecedent was in the fact set when the round
\* began.
C34_ModusPonensClosure ==
    /\ []((/\ impl \in {"stage2", "quiz2"}
           /\ pc = "idle" /\ ret.op = "forward_chain" /\ ret.exc = ""
           /\ fc.broke)
          => ModusPonensClosed(rules, facts))
    /\ [][(impl \in {"stage2", "quiz2"} /\ pc = "pfc")
          => facts' \ facts \subseteq
               {r.t[3] : r \in {x \in Range(rules) : x.t[2] \in facts}}]_vars

\* the closure holds where every consequent is a literal
C34_LiteralRules ==
    (/\ impl \in {"stage2", "quiz2"}
     /\ pc = "idle" /\ ret.op = "forward_chain" /\ ret.exc = "" /\ fc.broke
     /\ \A r \in Range(rules) : is_lit(r.t[3]))
    => ModusPonensClosed(rules, facts)

\* C35: forward_chain of stage3 never raises; a proposed literal whose
\* negation is in the fact set is left out of the fact set, every other fact
\* proposed in the round is in the fact set after the round, and a round
\* that changes neither the facts nor the rules ends the call.
C35_RejectedLiterals ==
    /\ [](impl = "stage3" /\ ret.op = "forward_chain" => ret.exc = "")
    /\ [][(impl = "stage3" /\ pc = "pfc" /\ fc.it < fc.max)
          => /\ \A l \in fc'.rejected :
                  is_lit(l) /\ negate(l) \in facts' /\ l \notin facts'
             /\ facts' = facts \cup (fc'.proposed \ fc'.rejected)
             /\ (facts' = facts /\ rules' = rules => pc' = "idle")]_vars

\* forward_chain has returned after a round in which a literal was rejected
\* and nothing was added
C35_Witness ==
    /\ impl = "stage3" /\ pc = "idle"
    /\ ret.op = "forward_chain" /\ ret.exc = ""
    /\ fc.rejected # {} /\ fc.broke
    /\ fc.start = facts /\ fc.rstart = rules

====
